---- MODULE Spec2Model ----
(***************************************************************************)
(* A model of the UIGF/SRGF gacha-record engine: the validator             *)
(* (utils.validate_json_structure), the splitter (FileProcessor) and the   *)
(* merger (FileMerger).                                                    *)
(*                                                                         *)
(* JSON values.  A scalar is [t, s, i]: a string (t = "str", s its code    *)
(* points, e.g. <<51,48,49>> is "301"), an integer (t = "int", i its       *)
(* value) or null (t = "none").  A dict is the sequence of its [k, v]      *)
(* pairs in insertion order, as Python keeps it.  An element of a record   *)
(* list is [isdict, f]: a dict with the pairs f, or some non-dict value.   *)
(***************************************************************************)
EXTENDS Integers, Sequences, FiniteSets, TLC

VARIABLES game_type, disk, data, outdir, result, calls, prev,
          arg, ret

vars == <<game_type, disk, data, outdir, result, calls, prev, arg, ret>>

\* ------------------------------------------------------------- bounds

MaxMergeLen == 2
MaxListLen == 2
MaxSplitLen == 2
MaxValidateLen == 6
MaxCalls == 2
MaxTail == 1
LongLen == 112

\* ------------------------------------------------------ Python values

StrVal(chars) == [t |-> "str", s |-> chars, i |-> 0]
IntVal(n) == [t |-> "int", s |-> <<>>, i |-> n]
NoneVal == [t |-> "none", s |-> <<>>, i |-> 0]

IsStr(v) == v.t = "str"

\* bool(v): the empty string, 0 and None are falsy
Truthy(v) ==
    CASE v.t = "str" -> v.s # <<>>
      [] v.t = "int" -> v.i # 0
      [] OTHER -> FALSE

RECURSIVE NatDigits(_)
NatDigits(n) ==
    IF n < 10 THEN <<48 + n>> ELSE NatDigits(n \div 10) \o <<48 + (n % 10)>>

\* str(v), as code points: str(12) = "12", str(-3) = "-3", str(None) = "None"
PyStr(v) ==
    CASE v.t = "str" -> v.s
      [] v.t = "int" -> IF v.i < 0 THEN <<45>> \o NatDigits(0 - v.i)
                                   ELSE NatDigits(v.i)
      [] OTHER -> <<78, 111, 110, 101>>

IsSpace(c) == c \in (9..13) \cup (28..32)
IsDigit(c) == c \in 48..57

RECURSIVE LStrip(_)
LStrip(s) ==
    IF s # <<>> /\ IsSpace(Head(s)) THEN LStrip(Tail(s)) ELSE s

RECURSIVE RStrip(_)
RStrip(s) ==
    IF s # <<>> /\ IsSpace(s[Len(s)]) THEN RStrip(SubSeq(s, 1, Len(s) - 1)) ELSE s

\* str.strip()
Strip(s) == RStrip(LStrip(s))

\* the text of an integer literal once int() has stripped the blanks: an
\* optional sign, then digits that single underscores may separate
Unsigned(s) == IF s # <<>> /\ s[1] \in {43, 45} THEN Tail(s) ELSE s

IsIntLiteral(s) ==
    LET b == Unsigned(Strip(s)) IN
      /\ b # <<>>
      /\ IsDigit(b[1])
      /\ IsDigit(b[Len(b)])
      /\ \A j \in 1..Len(b) : IsDigit(b[j]) \/ b[j] = 95
      /\ \A j \in 1..(Len(b) - 1) : ~(b[j] = 95 /\ b[j + 1] = 95)

RECURSIVE DigitsValue(_, _)
DigitsValue(b, acc) ==
    IF b = <<>> THEN acc
    ELSE IF Head(b) = 95 THEN DigitsValue(Tail(b), acc)
    ELSE DigitsValue(Tail(b), acc * 10 + (Head(b) - 48))

\* int(v) succeeds (no ValueError, no TypeError)
IntOk(v) ==
    CASE v.t = "int" -> TRUE
      [] v.t = "str" -> IsIntLiteral(v.s)
      [] OTHER -> FALSE

\* int(v), where it succeeds
IntOf(v) ==
    IF v.t = "int" THEN v.i
    ELSE LET st == Strip(v.s)
             n == DigitsValue(Unsigned(st), 0)
         IN IF st[1] = 45 THEN 0 - n ELSE n

\* a < b on str: by code points, a proper prefix first
StrLess(a, b) ==
    \E n \in 1..(Len(a) + 1) :
        /\ n <= Len(b)
        /\ \A j \in 1..(n - 1) : a[j] = b[j]
        /\ (n = Len(a) + 1 \/ a[n] < b[n])

\* ------------------------------------------------------------- dicts

Has(d, k) == \E n \in 1..Len(d) : d[n].k = k

Get(d, k) == d[CHOOSE n \in 1..Len(d) : d[n].k = k].v

\* d.get(k, default)
GetOr(d, k, default) == IF Has(d, k) THEN Get(d, k) ELSE default

\* d[k] = v: a new key goes last, a known key keeps its place
Put(d, k, v) ==
    IF Has(d, k)
    THEN [n \in 1..Len(d) |-> IF d[n].k = k THEN [k |-> k, v |-> v] ELSE d[n]]
    ELSE Append(d, [k |-> k, v |-> v])

Keys(d) == [n \in 1..Len(d) |-> d[n].k]
Values(d) == [n \in 1..Len(d) |-> d[n].v]

Dict(f) == [isdict |-> TRUE, f |-> f]
NonDict == [isdict |-> FALSE, f |-> <<>>]

\* key(a) < key(b), for int keys or str keys; swapped under reverse=True
KeyBefore(kind, reverse, a, b) ==
    LET lo == IF reverse THEN b ELSE a
        hi == IF reverse THEN a ELSE b
    IN IF kind = "int" THEN lo < hi ELSE StrLess(lo, hi)

\* it takes the place at of sorted, and what stood there or after moves on
InsertAt(it, sorted, at) ==
    [n \in 1..(Len(sorted) + 1) |->
        IF n < at THEN sorted[n] ELSE IF n = at THEN it ELSE sorted[n - 1]]

\* it goes before the first item whose key is after its own: sorted is in
\* order, so it goes after as many items as have no key after its own
Insert(kind, reverse, it, sorted) ==
    InsertAt(it, sorted,
             1 + Cardinality({n \in 1..Len(sorted) :
                                ~KeyBefore(kind, reverse, it.key, sorted[n].key)}))

\* the items from the one of place Len(sorted) + 1 on go into sorted
RECURSIVE SortTurns(_, _, _, _)
SortTurns(kind, reverse, items, sorted) ==
    IF Len(sorted) >= Len(items) THEN sorted
    ELSE SortTurns(kind, reverse, items,
                   Insert(kind, reverse, items[Len(sorted) + 1], sorted))

\* sorted(..., key=..., reverse=...) over items [key, x]: stable, so items
\* with equal keys keep their order, under reverse=True too
SortItems(kind, reverse, items) == SortTurns(kind, reverse, items, <<>>)

\* "zh-cn", the default language
LangZhCn == <<122,104,45,99,110>>

\* ------------------------------------------------------- game_config

\* "100", "200", "301", "400", "302", "500"  /  "1", "2", "11", "12", "21"
GAME_CONFIGS ==
    [genshin |->
        [gacha_types |-> << <<49,48,48>>, <<50,48,48>>, <<51,48,49>>,
                            <<52,48,48>>, <<51,48,50>>, <<53,48,48>> >>,
         merge_mapping |-> << [k |-> <<52,48,48>>, v |-> <<51,48,49>>] >>,
         version_field |-> "uigf_version"],
     starrail |->
        [gacha_types |-> << <<49>>, <<50>>, <<49,49>>, <<49,50>>, <<50,49>> >>,
         merge_mapping |-> << >>,
         version_field |-> "srgf_version"]]

GameTypes == {"genshin", "starrail"}

Range(seq) == {seq[n] : n \in 1..Len(seq)}

get_gacha_types(g) == GAME_CONFIGS[g].gacha_types

get_file_format_info(g) == [version_field |-> GAME_CONFIGS[g].version_field]

\* no merge_mapping: every gacha_type is its own target
NoFold(g, gacha_type) == gacha_type

should_merge_gacha_type(g, gacha_type) ==
    GetOr(GAME_CONFIGS[g].merge_mapping, gacha_type, gacha_type)

\* --------------------------------------------------------- documents

(* A parsed JSON file is [isdict, info, list]: whether its root is an      *)
(* object, its "info" ([k, f], k one of "absent", "other", "dict") and its *)
(* "list" ([k, items], k one of "absent", "other", "list").                *)
Doc(info, items) ==
    [isdict |-> TRUE, info |-> [k |-> "dict", f |-> info],
     list |-> [k |-> "list", items |-> items]]

Min(a, b) == IF a < b THEN a ELSE b

\* ------------------------------------------ utils.validate_json_structure

Valid == [ok |-> TRUE, kind |-> "", idx |-> 0, field |-> "", detail |-> <<>>]

Invalid(kind, idx, field, detail) ==
    [ok |-> FALSE, kind |-> kind, idx |-> idx, field |-> field, detail |-> detail]

\* not v or str(v).strip() == ""
IsBlank(v) == ~Truthy(v) \/ Strip(PyStr(v)) = <<>>

required_info_fields(g) ==
    <<"uid", "lang", "export_time", get_file_format_info(g).version_field>>

required_record_fields ==
    <<"gacha_type", "time", "name", "item_type", "rank_type", "id">>

\* the first failure of the loops over the required info fields
InfoCheck(info, g) ==
    LET fields == required_info_fields(g)
        bad == {n \in 1..Len(fields) :
                    ~Has(info, fields[n]) \/ IsBlank(Get(info, fields[n]))}
    IN IF bad = {} THEN Valid
       ELSE LET n == CHOOSE m \in bad : \A o \in bad : m <= o
            IN IF ~Has(info, fields[n])
               THEN Invalid("info_missing_field", 0, fields[n], <<>>)
               ELSE Invalid("info_empty_field", 0, fields[n], <<>>)

\* the checks of the sampled record number idx, in the code's order
RecordCheck(record, idx, g) ==
    IF ~record.isdict THEN Invalid("record_not_object", idx, "", <<>>)
    ELSE
      LET fields == required_record_fields
          bad == {n \in 1..Len(fields) :
                    \/ ~Has(record.f, fields[n])
                    \/ /\ fields[n] \in {"gacha_type", "time", "id"}
                       /\ IsBlank(Get(record.f, fields[n]))}
      IN IF bad # {}
         THEN LET n == CHOOSE m \in bad : \A o \in bad : m <= o
              IN IF ~Has(record.f, fields[n])
                 THEN Invalid("record_missing_field", idx, fields[n], <<>>)
                 ELSE Invalid("record_empty_field", idx, fields[n], <<>>)
         ELSE LET gacha_type == PyStr(Get(record.f, "gacha_type"))
                  supported_types == get_gacha_types(g)
                  time_str == PyStr(Get(record.f, "time"))
              IN IF supported_types # <<>> /\ gacha_type \notin Range(supported_types)
                 THEN Invalid("unsupported_gacha_type", idx, "gacha_type", gacha_type)
                 ELSE IF Len(time_str) < 10
                 THEN Invalid("bad_time", idx, "time", <<>>)
                 ELSE Valid

\* sample_size = len(record_list): every record is checked
SampleAll(record_list) == Len(record_list)

\* sample_size = min(5, len(record_list))
sample_size(record_list) == Min(5, Len(record_list))

validate_json_structure(d, g) ==
    IF ~d.isdict THEN Invalid("root_not_object", 0, "", <<>>)
    ELSE IF d.info.k = "absent" THEN Invalid("missing_info", 0, "info", <<>>)
    ELSE IF d.list.k = "absent" THEN Invalid("missing_list", 0, "list", <<>>)
    ELSE IF d.info.k # "dict" THEN Invalid("info_not_object", 0, "info", <<>>)
    ELSE IF ~InfoCheck(d.info.f, g).ok THEN InfoCheck(d.info.f, g)
    ELSE IF d.list.k # "list" THEN Invalid("list_not_array", 0, "list", <<>>)
    ELSE
      LET record_list == d.list.items
          bad == {n \in 1..sample_size(record_list) :
                     ~RecordCheck(record_list[n], n, g).ok}
      IN IF bad = {} THEN Valid
         ELSE LET n == CHOOSE m \in bad : \A o \in bad : m <= o
              IN RecordCheck(record_list[n], n, g)

\* ------------------------------------- FileProcessor._normalize_record

\* if record.get("count"): a count of 0 or "" is dropped
CountIsTruthy(record) == Has(record, "count") /\ Truthy(Get(record, "count"))

\* if "count" in record
count_in_record(record) == Has(record, "count")

StrOf(record, k, default) == StrVal(PyStr(GetOr(record, k, default)))

_normalize_record(record, uid, default_lang) ==
    << [k |-> "uid", v |-> uid],
       [k |-> "gacha_type", v |-> StrOf(record, "gacha_type", StrVal(<<>>))],
       [k |-> "item_id", v |-> StrOf(record, "item_id", StrVal(<<>>))] >>
    \o (IF count_in_record(record)
        THEN << [k |-> "count", v |-> StrVal(PyStr(Get(record, "count")))] >>
        ELSE << >>)
    \o << [k |-> "time", v |-> StrOf(record, "time", StrVal(<<>>))],
          [k |-> "name", v |-> StrOf(record, "name", StrVal(<<>>))],
          [k |-> "lang", v |-> StrOf(record, "lang", default_lang)],
          [k |-> "item_type", v |-> StrOf(record, "item_type", StrVal(<<>>))],
          [k |-> "rank_type", v |-> StrOf(record, "rank_type", StrVal(<<>>))],
          [k |-> "id", v |-> StrOf(record, "id", StrVal(<<>>))] >>

\* ------------------------------------------------ the output directory

(* The output directory is [exists, files]; files maps a file name, [kind, *)
(* name] (<c>.json is ["category", c], merged_<uid>.json is ["merged",      *)
(* uid]), to what was written: [complete, info, list].  A write that fails  *)
(* half-way leaves a file that is not complete.                             *)
NoDir == [exists |-> FALSE, files |-> << >>]

CategoryFile(c) == [kind |-> "category", name |-> c]
MergedFile(uid) == [kind |-> "merged", name |-> uid]

Written(info, list) == [complete |-> TRUE, info |-> info, list |-> list]
Partial == [complete |-> FALSE, info |-> << >>, list |-> << >>]

\* open(path, 'a'): what is written follows what the file held
AppendFile(files, name, content) ==
    IF name \in DOMAIN files
    THEN [n \in DOMAIN files |->
            IF n = name THEN [content EXCEPT !.list = files[n].list \o content.list]
            ELSE files[n]]
    ELSE [n \in DOMAIN files \cup {name} |-> IF n = name THEN content ELSE files[n]]

\* open(path, 'w') and json.dump: the file holds what is written, and only that
WriteFile(files, name, content) ==
    [n \in DOMAIN files \cup {name} |-> IF n = name THEN content ELSE files[n]]

(* The environment of one call: whether create_output_directory succeeds,  *)
(* whether the free space passes the check, which write fails (or meets a  *)
(* path that is too long), if any, and whether the failing write leaves a  *)
(* truncated file.                                                         *)
MaxFailAt == 2

Env(dir_ok, space_ok, fail_at, partial) ==
    [dir_ok |-> dir_ok, space_ok |-> space_ok, fail_at |-> fail_at,
     partial |-> partial]

\* nothing fails (fail_at = 0); the directory cannot be made; the disk is too
\* full; the k-th write fails, leaving nothing or a truncated file
Envs ==
    {Env(TRUE, TRUE, 0, FALSE), Env(FALSE, TRUE, 0, FALSE), Env(TRUE, FALSE, 0, FALSE)}
    \cup {Env(TRUE, TRUE, k, p) : k \in 1..MaxFailAt, p \in BOOLEAN}

\* --------------------------------- FileProcessor.save_records_by_type

\* key=lambda x: str(x.get('id', '')): the ids are never read as numbers
SortAsStrings(records_list) == FALSE

\* every key int(x.get('id', '0')) can be computed
AllIdsAreInts(records_list) ==
    \A n \in 1..Len(records_list) :
        IntOk(GetOr(records_list[n], "id", StrVal(<<48>>)))

IdItems(records_list) ==
    [n \in 1..Len(records_list) |->
        [key |-> IntOf(GetOr(records_list[n], "id", StrVal(<<48>>))),
         x |-> records_list[n]]]

StrItems(records_list, field) ==
    [n \in 1..Len(records_list) |->
        [key |-> PyStr(GetOr(records_list[n], field, StrVal(<<>>))),
         x |-> records_list[n]]]

Unwrap(items) == [n \in 1..Len(items) |-> items[n].x]

\* a bucket is sorted whatever its first record has
SortNeverFails(records_list) == FALSE

\* sort_records raises ValueError: the first record has no id and no time
SortFails(records_list) ==
    LET first_record == records_list[1]
    IN /\ ~(Has(first_record, "id") /\ Truthy(Get(first_record, "id")))
       /\ ~(Has(first_record, "time") /\ Truthy(Get(first_record, "time")))

\* sort_records, on a list that is not empty: x.get('id', '0') is x's id
\* wherever the id is present, and the normalizer always writes one
sort_records(records_list) ==
    LET first_record == records_list[1]
    IN IF Has(first_record, "id") /\ Truthy(Get(first_record, "id"))
       THEN IF AllIdsAreInts(records_list)
            THEN Unwrap(SortItems("int", TRUE, IdItems(records_list)))
            ELSE Unwrap(SortItems("str", TRUE, StrItems(records_list, "id")))
       ELSE Unwrap(SortItems("str", TRUE, StrItems(records_list, "time")))

Failure(error) == [success |-> FALSE, error |-> error]
Success == [success |-> TRUE, error |-> ""]

\* the loop over records_dict from its n-th bucket on; saved counts the
\* files written so far
RECURSIVE SaveLoop(_, _, _, _, _)
SaveLoop(records_dict, n, saved, files, env) ==
    IF n > Len(records_dict)
    THEN [status |-> IF saved = 0 THEN Failure("nothing_to_save") ELSE Success,
          files |-> files]
    ELSE
      LET gacha_type == records_dict[n].k
          records == records_dict[n].v
          name == CategoryFile(gacha_type)
      IN IF records = <<>> THEN SaveLoop(records_dict, n + 1, saved, files, env)
         ELSE IF SortFails(records)
         THEN [status |-> Failure("missing_sort_field"), files |-> files]
         ELSE IF saved + 1 = env.fail_at
         THEN [status |-> Failure("write_failed"),
               files |-> IF env.partial THEN WriteFile(files, name, Partial)
                         ELSE files]
         ELSE SaveLoop(records_dict, n + 1, saved + 1,
                       WriteFile(files, name, Written(<<>>, sort_records(records))),
                       env)

RECURSIVE SumLen(_)
SumLen(d) == IF d = <<>> THEN 0 ELSE Len(Head(d).v) + SumLen(Tail(d))

\* free_space < estimated_size * 2 cannot hold when there is nothing to write
save_records_by_type(records_dict, files, env) ==
    IF ~env.space_ok /\ SumLen(records_dict) > 0
    THEN [status |-> Failure("disk_full"), files |-> files]
    ELSE SaveLoop(records_dict, 1, 0, files, env)

\* --------------------------------------- FileProcessor.process_records

\* the record takes part in the split: a dict with a supported gacha_type
Splittable(record, g) ==
    /\ record.isdict
    /\ Has(record.f, "gacha_type")
    /\ PyStr(Get(record.f, "gacha_type")) \in Range(get_gacha_types(g))

\* the progress callback of a call: none, or one whose raise_at-th
\* invocation raises (0: it never raises)
NoCallback == [given |-> FALSE, raise_at |-> 0]
Callback(raise_at) == [given |-> TRUE, raise_at |-> raise_at]

\* the n-th invocation of the callback raises
Raises(cb, n) == cb.given /\ cb.raise_at = n

\* if progress_callback and (i + 1) % 100 == 0
ProgressEvery == 100

\* record["gacha_type"] = target_gacha_type on the caller's own dict
RemapInPlace(record, target_gacha_type) ==
    [caller |-> Put(record, "gacha_type", StrVal(target_gacha_type)),
     local |-> Put(record, "gacha_type", StrVal(target_gacha_type))]

\* record = record.copy(); record["gacha_type"] = target_gacha_type: the
\* caller's dict as it is left, and the dict the loop goes on with
Remap(record, target_gacha_type) ==
    [caller |-> record,
     local |-> Put(record, "gacha_type", StrVal(target_gacha_type))]

\* the record as normalized, after its gacha_type is folded, and the
\* caller's record as the turn leaves it
Processed(record, g, uid, lang) ==
    LET original_gacha_type == PyStr(Get(record.f, "gacha_type"))
        target_gacha_type == should_merge_gacha_type(g, original_gacha_type)
        rec == IF target_gacha_type # original_gacha_type
               THEN Remap(record.f, target_gacha_type)
               ELSE [caller |-> record.f, local |-> record.f]
    IN [target |-> target_gacha_type,
        record |-> _normalize_record(rec.local, uid, lang),
        caller |-> Dict(rec.caller)]

\* progress_callback(current, total, message): what the callback is given
Progress(current, total) == [current |-> current, total |-> total]

(* one turn of the loop over records.  st.i counts the records seen,       *)
(* st.cb_calls the invocations of the callback and st.cb_log what they     *)
(* were given, st.records is the caller's                                  *)
(* list as the turns have left it.  The callback is invoked after          *)
(* processed_count += 1, inside the try whose handler counts a skip.       *)
AddRecord(st, record, g, uid, lang, cb) ==
    IF ~Splittable(record, g)
    THEN [st EXCEPT !.skipped_count = @ + 1, !.i = @ + 1,
                    !.records = Append(@, record)]
    ELSE LET p == Processed(record, g, uid, lang)
             fires == cb.given /\ (st.i + 1) % ProgressEvery = 0
             raises == fires /\ cb.raise_at = st.cb_calls + 1
         IN [records_by_type |->
                Put(st.records_by_type, p.target,
                    Append(GetOr(st.records_by_type, p.target, <<>>), p.record)),
             processed_count |-> st.processed_count + 1,
             skipped_count |-> st.skipped_count + (IF raises THEN 1 ELSE 0),
             i |-> st.i + 1,
             cb_calls |-> st.cb_calls + (IF fires THEN 1 ELSE 0),
             cb_log |-> IF fires
                        THEN Append(st.cb_log, Progress(st.i + 1, st.total_records))
                        ELSE st.cb_log,
             total_records |-> st.total_records,
             records |-> Append(st.records, p.caller)]

\* for i, record in enumerate(records): the turns from record st.i + 1 on
RECURSIVE GroupLoop(_, _, _, _, _, _)
GroupLoop(st, records, g, uid, lang, cb) ==
    IF st.i >= Len(records) THEN st
    ELSE GroupLoop(AddRecord(st, records[st.i + 1], g, uid, lang, cb), records,
                   g, uid, lang, cb)

NoStats ==
    [keys |-> {}, total_records |-> 0, processed_records |-> 0,
     skipped_records |-> 0, gacha_types |-> << >>]

Counts(records_by_type) ==
    [n \in 1..Len(records_by_type) |->
        [k |-> records_by_type[n].k, v |-> Len(records_by_type[n].v)]]

\* an exception leaves the body of process_records
ProcessRaised(d, dir) ==
    [success |-> FALSE, error |-> "", stats |-> NoStats, outdir |-> dir,
     data |-> d, raised |-> TRUE, cb_calls |-> 0, cb_log |-> <<>>]

(* the body of the try of process_records(data, output_dir,                *)
(* progress_callback) in the environment env: what it returns, [success,   *)
(* error, stats], the output directory it leaves, the caller's document as *)
(* it leaves it, whether an exception left it, how many times it has       *)
(* invoked the callback and with what.  stats.keys are the                 *)
(* keys the stats have: an empty list returns stats without                *)
(* skipped_records.                                                        *)
ProcessTry(d, g, dir, env, cb) ==
    IF ~env.dir_ok
    THEN [success |-> FALSE, error |-> "create_output_directory", stats |-> NoStats,
          outdir |-> dir, data |-> d, raised |-> FALSE, cb_calls |-> 0,
          cb_log |-> <<>>]
    ELSE IF ~d.isdict \/ d.list.k # "list"
    THEN [success |-> FALSE, error |-> "no_record_list", stats |-> NoStats,
          outdir |-> [dir EXCEPT !.exists = TRUE], data |-> d, raised |-> FALSE,
          cb_calls |-> 0, cb_log |-> <<>>]
    ELSE IF d.list.items = <<>>
    THEN [success |-> TRUE, error |-> "",
          stats |-> [NoStats EXCEPT !.keys =
                        {"total_records", "processed_records", "gacha_types"}],
          outdir |-> [dir EXCEPT !.exists = TRUE], data |-> d, raised |-> FALSE,
          cb_calls |-> 0, cb_log |-> <<>>]
    ELSE
      LET records == d.list.items
          has_info == d.info.k = "dict"
          uid == IF has_info THEN StrOf(d.info.f, "uid", StrVal(<<>>))
                 ELSE StrVal(<<>>)
          lang == IF has_info THEN GetOr(d.info.f, "lang", StrVal(LangZhCn))
                  ELSE StrVal(LangZhCn)
          st == GroupLoop([records_by_type |-> <<>>, processed_count |-> 0,
                           skipped_count |-> 0, i |-> 0, cb_calls |-> 0,
                           cb_log |-> <<>>, total_records |-> Len(records),
                           records |-> <<>>], records, g, uid, lang, cb)
          left == [d EXCEPT !.list.items = st.records]
          made == IF cb.given THEN st.cb_calls + 1 ELSE 0
          log == IF cb.given
                 THEN Append(st.cb_log, Progress(Len(records), Len(records)))
                 ELSE <<>>
      IN IF Raises(cb, st.cb_calls + 1)
         THEN [ProcessRaised(left, [dir EXCEPT !.exists = TRUE])
                  EXCEPT !.cb_calls = made, !.cb_log = log]
         ELSE
           LET saved == save_records_by_type(st.records_by_type, dir.files, env)
           IN IF ~saved.status.success
              THEN [success |-> FALSE, error |-> saved.status.error,
                    stats |-> NoStats,
                    outdir |-> [exists |-> TRUE, files |-> saved.files],
                    data |-> left, raised |-> FALSE, cb_calls |-> made,
                    cb_log |-> log]
              ELSE [success |-> TRUE, error |-> "",
                    stats |-> [keys |-> {"total_records", "processed_records",
                                         "skipped_records", "gacha_types"},
                               total_records |-> Len(records),
                               processed_records |-> st.processed_count,
                               skipped_records |-> st.skipped_count,
                               gacha_types |-> Counts(st.records_by_type)],
                    outdir |-> [exists |-> TRUE, files |-> saved.files],
                    data |-> left, raised |-> FALSE, cb_calls |-> made,
                    cb_log |-> log]

\* no handler: what leaves the body leaves process_records
Uncaught(r) == r

\* except Exception as e: return False, "处理记录时发生错误: ...", None
ProcessCaught(r) ==
    IF r.raised
    THEN [r EXCEPT !.raised = FALSE, !.success = FALSE, !.error = "process_error"]
    ELSE r

\* process_records(data, output_dir, progress_callback)
process_records(d, g, dir, env, cb) == ProcessCaught(ProcessTry(d, g, dir, env, cb))

\* --------------------------------------------- FileMerger.merge_records

\* str(record.get("id", ""))
record_id(record) == PyStr(GetOr(record.f, "id", StrVal(<<>>)))

\* the records the loops do not skip: dicts whose id is not ""
Mergeable(record) == record.isdict /\ record_id(record) # <<>>

\* merged.append(record_copy): no dict, a repeated id of file 1 stays twice
AppendFirst(merged_dict, record) ==
    IF ~Mergeable(record) THEN merged_dict
    ELSE Append(merged_dict, [k |-> record_id(record), v |-> record])

\* one turn of the loop over records1
AddFirst(merged_dict, record) ==
    IF ~Mergeable(record) THEN merged_dict
    ELSE Put(merged_dict, record_id(record), record)

\* merged_dict[record_id] = record_copy on a collision too: file 2 wins
AddSecondOverwrite(st, record) ==
    IF ~Mergeable(record) THEN st
    ELSE IF Has(st.merged_dict, record_id(record))
    THEN [merged_dict |-> Put(st.merged_dict, record_id(record), record),
          duplicate_records |-> st.duplicate_records + 1]
    ELSE [st EXCEPT !.merged_dict = Put(@, record_id(record), record)]

\* the loop over records2 has no body: file 2 adds nothing
SkipSecond(st, record) == st

\* a collision is dropped without stats["duplicate_records"] += 1
AddSecondUncounted(st, record) ==
    IF ~Mergeable(record) \/ Has(st.merged_dict, record_id(record)) THEN st
    ELSE [st EXCEPT !.merged_dict = Put(@, record_id(record), record)]

\* one turn of the loop over records2
AddSecond(st, record) ==
    IF ~Mergeable(record) THEN st
    ELSE IF Has(st.merged_dict, record_id(record))
    THEN [st EXCEPT !.duplicate_records = @ + 1]
    ELSE [st EXCEPT !.merged_dict = Put(@, record_id(record), record)]

\* the turns of the loop over records1 from the record x.i + 1 on
RECURSIVE FirstTurns(_, _)
FirstTurns(x, records) ==
    IF x.i >= Len(records) THEN x
    ELSE FirstTurns([merged_dict |-> AddFirst(x.merged_dict, records[x.i + 1]),
                     i |-> x.i + 1], records)

\* for record in records1
LoopFirst(merged_dict, records) ==
    FirstTurns([merged_dict |-> merged_dict, i |-> 0], records).merged_dict

\* the turns of the loop over records2 from the record x.i + 1 on
RECURSIVE SecondTurns(_, _)
SecondTurns(x, records) ==
    IF x.i >= Len(records) THEN x
    ELSE SecondTurns([st |-> AddSecond(x.st, records[x.i + 1]), i |-> x.i + 1],
                     records)

\* for record in records2
LoopSecond(st, records) == SecondTurns([st |-> st, i |-> 0], records).st

\* the lists are lists (validate_merge_files has checked it), so nothing raises
merge_records(records1, records2) ==
    LET st == LoopSecond([merged_dict |-> LoopFirst(<<>>, records1),
                          duplicate_records |-> 0], records2)
        merged_records == Values(st.merged_dict)
    IN [merged_records |-> merged_records,
        stats |-> [file1_records |-> Len(records1),
                   file2_records |-> Len(records2),
                   duplicate_records |-> st.duplicate_records,
                   unique_records |-> Len(merged_records) - st.duplicate_records,
                   total_merged_records |-> Len(merged_records)]]

\* ----------------------------------------- utils.extract_uid_from_data

\* str(uid) of info's uid, or of the first record's; <<>> stands for None
extract_uid_from_data(d) ==
    IF ~d.isdict THEN <<>>
    ELSE IF d.info.k = "dict" /\ Has(d.info.f, "uid") /\ Truthy(Get(d.info.f, "uid"))
    THEN PyStr(Get(d.info.f, "uid"))
    ELSE IF /\ d.list.k = "list"
            /\ d.list.items # <<>>
            /\ d.list.items[1].isdict
            /\ Has(d.list.items[1].f, "uid")
            /\ Truthy(Get(d.list.items[1].f, "uid"))
    THEN PyStr(Get(d.list.items[1].f, "uid"))
    ELSE <<>>

\* -------------------------------------- FileMerger.validate_merge_files

(* A file on disk is [status, doc]: status "ok" with the document its JSON *)
(* parses to, or what is wrong with it: "missing", "unreadable" (no read   *)
(* permission), "empty" (0 bytes), "too_large" (over 100MB), "bad_json",   *)
(* "bad_encoding" (not UTF-8).                                             *)
File(d) == [status |-> "ok", doc |-> d]
BadFile(status) == [status |-> status, doc |-> << >>]

BadStatuses ==
    {"missing", "unreadable", "empty", "too_large", "bad_json", "bad_encoding"}

\* file is 1 or 2 when error_details names file1_issues or file2_issues, 0
\* when the issue is of both files together or there is none
CanMerge(uid) == [ok |-> TRUE, error_type |-> "", uid |-> uid, file |-> 0]

CannotMergeFile(error_type, file) ==
    [ok |-> FALSE, error_type |-> error_type, uid |-> << >>, file |-> file]

CannotMerge(error_type) == CannotMergeFile(error_type, 0)

\* the gacha_types of records, as strings, that the game does not have
invalid_gacha_types(records, g) ==
    {PyStr(Get(records[n].f, "gacha_type")) :
        n \in {m \in 1..Len(records) :
                  /\ records[m].isdict
                  /\ Has(records[m].f, "gacha_type")
                  /\ PyStr(Get(records[m].f, "gacha_type"))
                        \notin Range(get_gacha_types(g))}}

\* the loop over records1 + records2 finds nothing: every gacha_type passes
AnyGachaType(data1, data2, g) == TRUE

_check_game_type_compatibility(data1, data2, g) ==
    invalid_gacha_types(data1.list.items \o data2.list.items, g) = {}

\* the most records two files may have together
max_total_records == 100000

\* if uid1 != uid2: the gate is never closed
NoUidGate(uid1, uid2) == FALSE

\* if uid1 != uid2
uid_mismatch(uid1, uid2) == uid1 # uid2

\* the checks that follow the loading of both files
ValidateLoaded(data1, data2, g) ==
    LET uid1 == extract_uid_from_data(data1)
        uid2 == extract_uid_from_data(data2)
    IN IF ~validate_json_structure(data1, g).ok
       THEN CannotMergeFile("format_incompatible", 1)
       ELSE IF ~validate_json_structure(data2, g).ok
       THEN CannotMergeFile("format_incompatible", 2)
       ELSE IF uid1 = <<>> THEN CannotMergeFile("uid_extraction_failed", 1)
       ELSE IF uid2 = <<>> THEN CannotMergeFile("uid_extraction_failed", 2)
       ELSE IF uid_mismatch(uid1, uid2) THEN CannotMerge("uid_mismatch")
       ELSE IF ~_check_game_type_compatibility(data1, data2, g)
       THEN CannotMerge("game_type_incompatible")
       ELSE LET total_records == Len(data1.list.items) + Len(data2.list.items)
            IN IF total_records > max_total_records
               THEN CannotMerge("too_many_records")
               ELSE IF total_records = 0 THEN CannotMerge("no_records")
               ELSE CanMerge(uid1)

\* validate_merge_files(file1_path, file2_path) over the files on disk; the
\* warnings of _check_record_quality do not change what it returns
validate_merge_files(file1_path, file2_path, files, g) ==
    LET f1 == files[file1_path]
        f2 == files[file2_path]
    IN IF f1.status = "missing" THEN CannotMergeFile("file_not_found", 1)
       ELSE IF f2.status = "missing" THEN CannotMergeFile("file_not_found", 2)
       ELSE IF file1_path = file2_path THEN CannotMerge("same_file")
       ELSE IF f1.status = "unreadable" THEN CannotMergeFile("permission_error", 1)
       ELSE IF f2.status = "unreadable" THEN CannotMergeFile("permission_error", 2)
       ELSE IF f1.status = "empty" THEN CannotMergeFile("empty_file", 1)
       ELSE IF f2.status = "empty" THEN CannotMergeFile("empty_file", 2)
       ELSE IF f1.status = "too_large" THEN CannotMergeFile("file_too_large", 1)
       ELSE IF f2.status = "too_large" THEN CannotMergeFile("file_too_large", 2)
       ELSE IF f1.status = "bad_json" THEN CannotMergeFile("json_format_error", 1)
       ELSE IF f1.status = "bad_encoding" THEN CannotMergeFile("encoding_error", 1)
       ELSE IF f2.status = "bad_json" THEN CannotMergeFile("json_format_error", 2)
       ELSE IF f2.status = "bad_encoding" THEN CannotMergeFile("encoding_error", 2)
       ELSE ValidateLoaded(f1.doc, f2.doc, g)

\* ---------------------------------------- FileMerger.sort_records_by_id

\* sorted(records, key=...), ascending; the first record picks the key, and
\* an id that int() refuses sends every record to the sort by str(id)
sort_records_by_id(records) ==
    IF records = <<>> THEN records
    ELSE
      LET first_record == records[1].f
          key_of(n) ==
              IF Has(first_record, "id") /\ Truthy(Get(first_record, "id"))
              THEN IF \A m \in 1..Len(records) :
                          IntOk(GetOr(records[m].f, "id", StrVal(<<48>>)))
                   THEN IntOf(GetOr(records[n].f, "id", StrVal(<<48>>)))
                   ELSE PyStr(GetOr(records[n].f, "id", StrVal(<<>>)))
              ELSE PyStr(GetOr(records[n].f, "time", StrVal(<<>>)))
          kind == IF /\ Has(first_record, "id") /\ Truthy(Get(first_record, "id"))
                     /\ \A m \in 1..Len(records) :
                          IntOk(GetOr(records[m].f, "id", StrVal(<<48>>)))
                  THEN "int" ELSE "str"
      IN Unwrap(SortItems(kind, FALSE,
                    [n \in 1..Len(records) |-> [key |-> key_of(n), x |-> records[n]]]))

\* ---------------------------------------- FileMerger.create_merged_info

\* "yunzai-uigf-splitter", "v1.1", "v3.0", "v1.0"
ExportApp ==
    <<121,117,110,122,97,105,45,117,105,103,102,45,115,112,108,105,116,116,101,114>>
ExportAppVersion == <<118,49,46,49>>
UigfVersion == <<118,51,46,48>>
SrgfVersion == <<118,49,46,48>>

\* datetime.now().strftime("%Y-%m-%d %H:%M:%S") of the call: "2024-01-02 00:00:00"
Now == <<50,48,50,52,45,48,49,45,48,50,32,48,48,58,48,48,58,48,48>>

\* info1 and info2 are dicts: validate_merge_files has accepted both files
create_merged_info(info1, info2, g) ==
    LET with_uid == IF ~Has(info1, "uid") /\ Has(info2, "uid")
                    THEN Put(info1, "uid", Get(info2, "uid")) ELSE info1
        with_lang == IF ~Has(with_uid, "lang") /\ Has(info2, "lang")
                     THEN Put(with_uid, "lang", Get(info2, "lang")) ELSE with_uid
        with_app == Put(Put(with_lang, "export_app", StrVal(ExportApp)),
                        "export_app_version", StrVal(ExportAppVersion))
        with_version == IF g = "genshin"
                        THEN Put(with_app, "uigf_version", StrVal(UigfVersion))
                        ELSE Put(with_app, "srgf_version", StrVal(SrgfVersion))
    IN Put(with_version, "export_time", StrVal(Now))

\* ----------------------------------------------- FileMerger.merge_files

NoResultInfo ==
    [merged_filename |-> << >>, uid |-> << >>, merge_stats |-> << >>,
     converted_files |-> << >>, convert_error |-> "", convert_stats |-> NoStats]

\* os.makedirs(output_dir) comes first: a failure leaves the directory
MergeFailureInDirectory(error, dir) ==
    [success |-> FALSE, error |-> error, result_info |-> NoResultInfo,
     outdir |-> [dir EXCEPT !.exists = TRUE], raised |-> FALSE, cb_log |-> <<>>]

\* cb_log is what the callback was given, call after call
MergeFailure(error, dir) ==
    [success |-> FALSE, error |-> error, result_info |-> NoResultInfo, outdir |-> dir,
     raised |-> FALSE, cb_log |-> <<>>]

\* an exception leaves the body of merge_files
MergeRaised(dir) ==
    [success |-> FALSE, error |-> "", result_info |-> NoResultInfo, outdir |-> dir,
     raised |-> TRUE, cb_log |-> <<>>]

\* progress_callback(10, 100, ...) to progress_callback(80, 100, ...), and
\* then 90 before the conversion or 100 when there is none
Steps(convert_after_merge) ==
    <<10, 20, 30, 50, 60, 70, 80, IF convert_after_merge THEN 90 ELSE 100>>

\* what the first n invocations by merge_files give the callback
Said(cb, n, convert_after_merge) ==
    IF cb.given
    THEN [j \in 1..n |-> Progress(Steps(convert_after_merge)[j], 100)]
    ELSE <<>>

\* progress_callback(100, 100, "合并完成") after the conversion c, unless
\* an exception has left the conversion
Done(cb, c) ==
    IF cb.given /\ ~c.raised THEN <<Progress(100, 100)>> ELSE <<>>

\* the environment of the conversion: the merged file was the first write
AfterFirstWrite(env) ==
    [env EXCEPT !.fail_at = IF @ = 0 THEN 0 ELSE @ - 1]

\* the callback as a callee sees it that gets it after n invocations
Later(cb, n) ==
    IF cb.given /\ cb.raise_at > n THEN Callback(cb.raise_at - n)
    ELSE IF cb.given THEN Callback(0)
    ELSE cb

\* if not convert_success: return False, convert_error, None
ConvertOrFail(merged_data, g, dir, env, result_info, cb, cb_calls) ==
    LET after(c) ==
          IF c.raised \/ Raises(cb, cb_calls + c.cb_calls + 1)
          THEN [MergeRaised(c.outdir) EXCEPT
                   !.cb_log = Said(cb, cb_calls, TRUE) \o c.cb_log \o Done(cb, c)]
          ELSE IF ~c.success
          THEN [MergeFailure(c.error, c.outdir) EXCEPT
                   !.cb_log = Said(cb, cb_calls, TRUE) \o c.cb_log]
          ELSE [success |-> TRUE, error |-> "",
                result_info |-> [result_info EXCEPT !.convert_stats = c.stats],
                outdir |-> c.outdir, raised |-> FALSE,
                cb_log |-> Said(cb, cb_calls, TRUE) \o c.cb_log \o Done(cb, c)]
    IN after(process_records(merged_data, g, dir, AfterFirstWrite(env),
                             Later(cb, cb_calls)))

\* step 9, process_records on merged_data, into the same directory and
\* with the same callback, and step 10, the last invocation of the callback
Convert(merged_data, g, dir, env, result_info, cb, cb_calls) ==
    LET after(c) ==
          IF c.raised \/ Raises(cb, cb_calls + c.cb_calls + 1)
          THEN [MergeRaised(c.outdir) EXCEPT
                   !.cb_log = Said(cb, cb_calls, TRUE) \o c.cb_log \o Done(cb, c)]
          ELSE IF ~c.success
          THEN [success |-> TRUE, error |-> "",
                result_info |-> [result_info EXCEPT !.convert_error = c.error],
                outdir |-> c.outdir, raised |-> FALSE,
                cb_log |-> Said(cb, cb_calls, TRUE) \o c.cb_log \o Done(cb, c)]
          ELSE [success |-> TRUE, error |-> "",
                result_info |->
                   [result_info EXCEPT
                       !.convert_stats = c.stats,
                       !.converted_files =
                           SelectSeq(Keys(c.stats.gacha_types),
                                     LAMBDA k : CategoryFile(k) \in DOMAIN c.outdir.files)],
                outdir |-> c.outdir, raised |-> FALSE,
                cb_log |-> Said(cb, cb_calls, TRUE) \o c.cb_log \o Done(cb, c)]
    IN after(process_records(merged_data, g, dir, AfterFirstWrite(env),
                             Later(cb, cb_calls)))

(* the body of the try of merge_files(file1_path, file2_path, output_dir,  *)
(* convert_after_merge, progress_callback) over the files on disk and in   *)
(* the environment env: what it returns, [success, error, result_info],    *)
(* the output directory it leaves, and whether an exception left it.  The  *)
(* callback is invoked before each step: 1 validate, 2 create the          *)
(* directory, 3 load, 4 merge, 5 sort, 6 info, 7 save, 8 convert or done.  *)
(* The two files are the same at step 3 as they were when                  *)
(* validate_merge_files read them.                                         *)
MergeTry(file1_path, file2_path, files, g, dir, convert_after_merge, env, cb) ==
    LET data1 == files[file1_path].doc
        data2 == files[file2_path].doc
        \* steps 7 and 8: the merged file is written, then converted
        save(uid, m, sorted_records, merged_info) ==
            LET name == MergedFile(uid)
                result_info == [NoResultInfo EXCEPT !.merged_filename = name,
                                                    !.uid = uid,
                                                    !.merge_stats = m.stats]
                convert(written) ==
                    IF Raises(cb, 8)
                    THEN [MergeRaised(written)
                             EXCEPT !.cb_log = Said(cb, 8, convert_after_merge)]
                    ELSE IF ~convert_after_merge
                    THEN [success |-> TRUE, error |-> "", result_info |-> result_info,
                          outdir |-> written, raised |-> FALSE,
                          cb_log |-> Said(cb, 8, FALSE)]
                    ELSE Convert(Doc(merged_info, sorted_records), g, written, env,
                                 result_info, cb, 8)
            IN IF env.fail_at = 1
               THEN [MergeFailure("save_failed",
                       [exists |-> TRUE,
                        files |-> IF env.partial
                                  THEN WriteFile(dir.files, name, Partial)
                                  ELSE dir.files])
                        EXCEPT !.cb_log = Said(cb, 7, FALSE)]
               ELSE convert([exists |-> TRUE,
                             files |-> WriteFile(dir.files, name,
                                          Written(merged_info,
                                                  [n \in 1..Len(sorted_records) |->
                                                      sorted_records[n].f]))])
        \* steps 5 and 6: the merged records are sorted, the info is made
        sort(uid, m) ==
            save(uid, m, sort_records_by_id(m.merged_records),
                 create_merged_info(data1.info.f, data2.info.f, g))
        \* steps 2 to 4, after validate_merge_files has answered v
        validated(v) ==
            IF ~v.ok
            THEN [MergeFailure(v.error_type, dir) EXCEPT !.cb_log = Said(cb, 1, FALSE)]
            ELSE IF Raises(cb, 2)
            THEN [MergeRaised(dir) EXCEPT !.cb_log = Said(cb, 2, FALSE)]
            ELSE IF ~env.dir_ok
            THEN [MergeFailure("create_output_directory", dir)
                     EXCEPT !.cb_log = Said(cb, 2, FALSE)]
            ELSE IF \E n \in 3..7 : Raises(cb, n)
            THEN [MergeRaised([dir EXCEPT !.exists = TRUE])
                     EXCEPT !.cb_log = Said(cb, cb.raise_at, FALSE)]
            ELSE sort(v.uid, merge_records(data1.list.items, data2.list.items))
    IN IF Raises(cb, 1) THEN [MergeRaised(dir) EXCEPT !.cb_log = Said(cb, 1, FALSE)]
       ELSE validated(validate_merge_files(file1_path, file2_path, files, g))

\* except Exception as e: return False, "合并文件时发生未知错误: ...", None
MergeCaught(r) ==
    IF r.raised
    THEN [r EXCEPT !.raised = FALSE, !.success = FALSE, !.error = "unknown_error"]
    ELSE r

\* merge_files(file1_path, file2_path, output_dir, convert_after_merge,
\* progress_callback)
merge_files(file1_path, file2_path, files, g, dir, convert_after_merge, env, cb) ==
    MergeCaught(MergeTry(file1_path, file2_path, files, g, dir, convert_after_merge,
                         env, cb))

\* ------------------------------------------------------------ inputs

\* "2024-01-01", "v3.0"
TimeOk == <<50,48,50,52,45,48,49,45,48,49>>
Version == <<118,51,46,48>>

\* "2025-01-01", later than TimeOk
TimeLate == <<50,48,50,53,45,48,49,45,48,49>>

\* a record with every required field, in a UIGF export's order
Rec(gacha_type, id, name) ==
    Dict(<< [k |-> "gacha_type", v |-> gacha_type],
            [k |-> "time", v |-> StrVal(TimeOk)],
            [k |-> "name", v |-> name],
            [k |-> "item_type", v |-> StrVal(<<119>>)],
            [k |-> "rank_type", v |-> StrVal(<<51>>)],
            [k |-> "id", v |-> id] >>)

\* d without its key k
Without(d, k) == SelectSeq(d, LAMBDA p : p.k # k)

InfoOf(uid, g) ==
    << [k |-> "uid", v |-> uid],
       [k |-> "lang", v |-> StrVal(LangZhCn)],
       [k |-> "export_time", v |-> StrVal(TimeOk)],
       [k |-> GAME_CONFIGS[g].version_field, v |-> StrVal(Version)] >>

\* the lists of at most n elements of S
Lists(S, n) == UNION {[1..m -> S] : m \in 0..n}

Unused == <<>>

\* ------------------------------------------- the validator on its own

\* a "301" record (genshin's), a "1" record (starrail's), a non-object, a
\* record without "name", a record whose time is "2024"
ValidateRecords ==
    { Rec(StrVal(<<51,48,49>>), StrVal(<<49>>), StrVal(<<120>>)),
      Rec(IntVal(1), StrVal(<<50>>), StrVal(<<120>>)),
      NonDict,
      Dict(Without(Rec(StrVal(<<51,48,49>>), StrVal(<<51>>), StrVal(<<120>>)).f, "name")) }

ValidateDocs(g) ==
    LET uid == StrVal(<<49>>)
        short == Lists(ValidateRecords, 1)
    IN  {Doc(InfoOf(uid, g), l) : l \in Lists(ValidateRecords, MaxValidateLen)}
        \cup {Doc(Without(InfoOf(uid, g), "lang"), l) : l \in short}
        \cup {Doc(InfoOf(StrVal(<<32>>), g), l) : l \in short}
        \cup {Doc(InfoOf(IntVal(0), g), l) : l \in short}
        \cup {[Doc(InfoOf(uid, g), l) EXCEPT !.isdict = FALSE] : l \in short}
        \cup {[Doc(InfoOf(uid, g), l) EXCEPT !.info.k = "absent"] : l \in short}
        \cup {[Doc(InfoOf(uid, g), l) EXCEPT !.info.k = "other"] : l \in short}
        \cup {[Doc(InfoOf(uid, g), l) EXCEPT !.list.k = "absent"] : l \in short}
        \cup {[Doc(InfoOf(uid, g), l) EXCEPT !.list.k = "other"] : l \in short}

NoVerdict == Invalid("none", 0, "", <<>>)

InitValidate ==
    /\ game_type \in GameTypes
    /\ data \in ValidateDocs(game_type)
    /\ result = NoVerdict
    /\ calls = 0
    /\ disk = Unused /\ outdir = Unused /\ prev = Unused
    /\ arg = Unused /\ ret = Unused

\* validate_json_structure(data, game_type)
Validate ==
    /\ calls = 0
    /\ result' = validate_json_structure(data, game_type)
    /\ calls' = 1
    /\ UNCHANGED <<game_type, disk, data, outdir, prev, arg, ret>>

NextValidate == Validate

SpecValidate == InitValidate /\ [][NextValidate]_vars

\* data with its list cut to the first n records
Truncated(d, n) ==
    IF d.list.k = "list"
    THEN [d EXCEPT !.list.items = SubSeq(d.list.items, 1, Min(n, Len(d.list.items)))]
    ELSE d

\* the record is what section 4.1 accepts
GoodRecord(r, g) ==
    /\ r.isdict
    /\ \A n \in 1..Len(required_record_fields) : Has(r.f, required_record_fields[n])
    /\ \A k \in {"gacha_type", "time", "id"} : ~IsBlank(Get(r.f, k))
    /\ PyStr(Get(r.f, "gacha_type")) \in Range(get_gacha_types(g))
    /\ Len(PyStr(Get(r.f, "time"))) >= 10

GoodInfo(d, g) ==
    /\ d.isdict /\ d.info.k = "dict" /\ d.list.k = "list"
    /\ \A n \in 1..4 : /\ Has(d.info.f, required_info_fields(g)[n])
                       /\ ~IsBlank(Get(d.info.f, required_info_fields(g)[n]))

(* C10: the verdict of validate_json_structure is the verdict on the       *)
(* document cut to its first five records, and a document with a valid     *)
(* info whose first five records are valid is accepted whatever records    *)
(* follow them.                                                            *)
C10_SamplesFirstFive ==
    calls = 1 =>
      /\ result = validate_json_structure(Truncated(data, 5), game_type)
      /\ ( /\ GoodInfo(data, game_type)
           /\ \A n \in 1..Min(5, Len(data.list.items)) :
                 GoodRecord(data.list.items[n], game_type) )
         => result.ok

\* a valid document followed by a sixth record that is no object is accepted
C10_Witness ==
    /\ calls = 1
    /\ data.list.k = "list"
    /\ Len(data.list.items) >= 6
    /\ \E n \in 6..Len(data.list.items) : ~GoodRecord(data.list.items[n], game_type)
    /\ result.ok

\* ------------------------------------------ the normalizer on its own

Reverse(seq) == [n \in 1..Len(seq) |-> seq[Len(seq) + 1 - n]]

\* a record with every field the normalizer reads and one it does not
FullRecord(id, count) ==
    << [k |-> "uigf_gacha_type", v |-> StrVal(<<51,48,49>>)],
       [k |-> "gacha_type", v |-> IntVal(400)],
       [k |-> "item_id", v |-> NoneVal],
       [k |-> "count", v |-> count],
       [k |-> "time", v |-> StrVal(TimeOk)],
       [k |-> "name", v |-> StrVal(<<120>>)],
       [k |-> "lang", v |-> StrVal(<<101,110>>)],
       [k |-> "item_type", v |-> StrVal(<<119>>)],
       [k |-> "rank_type", v |-> IntVal(3)],
       [k |-> "id", v |-> id] >>

NormalizeRecords ==
    LET full == {FullRecord(id, count) :
                    id \in {IntVal(5), StrVal(<<48,53>>), NoneVal},
                    count \in {StrVal(<<49>>), IntVal(0), StrVal(<<>>)}}
        cut == {SelectSeq(r, LAMBDA p : p.k \notin K) :
                    r \in full,
                    K \in SUBSET {"count", "lang", "item_id", "gacha_type", "id"}}
    IN cut \cup {Reverse(r) : r \in cut}

InitNormalize ==
    /\ arg \in [record : NormalizeRecords,
                uid : {StrVal(<<49>>), StrVal(<<>>), IntVal(1)},
                default_lang : {StrVal(LangZhCn), IntVal(7), NoneVal}]
    /\ ret = <<>>
    /\ prev = <<>>
    /\ calls = 0
    /\ game_type = Unused /\ disk = Unused /\ data = Unused
    /\ outdir = Unused /\ result = Unused

\* _normalize_record(record, uid, default_lang), then once more on its output
Normalize ==
    /\ calls < MaxCalls
    /\ ret' = _normalize_record(IF calls = 0 THEN arg.record ELSE ret,
                                arg.uid, arg.default_lang)
    /\ prev' = ret
    /\ calls' = calls + 1
    /\ UNCHANGED <<game_type, disk, data, outdir, result, arg>>

NextNormalize == Normalize

SpecNormalize == InitNormalize /\ [][NextNormalize]_vars

NormalizedKeys(with_count) ==
    <<"uid", "gacha_type", "item_id">>
    \o (IF with_count THEN <<"count">> ELSE << >>)
    \o <<"time", "name", "lang", "item_type", "rank_type", "id">>

(* C8: a normalized record has the fields of section 4.2 in that order,    *)
(* count exactly when the source record has one, and normalizing it again  *)
(* with the same uid and default language gives the same record.           *)
C8_NormalizeIdempotent ==
    /\ calls >= 1 => Keys(ret) = NormalizedKeys(Has(arg.record, "count"))
    /\ calls >= 2 => ret = prev

\* a record with a falsy count, no lang and an integer id was normalized twice
C8_Witness ==
    /\ calls = 2
    /\ Has(arg.record, "count") /\ ~Truthy(Get(arg.record, "count"))
    /\ ~Has(arg.record, "lang")
    /\ Has(arg.record, "id") /\ Get(arg.record, "id").t = "int"
    /\ Get(ret, "id") = StrVal(<<53>>)

\* --------------------------------------------- merge_records on its own

\* file 1's records are named "x" (one "z"), file 2's "y"; ids "1", "2", "3",
\* the integers 1 and 2, "" and none at all
MergeRecords1 ==
    { Rec(StrVal(<<51,48,49>>), StrVal(<<49>>), StrVal(<<120>>)),
      Rec(StrVal(<<51,48,49>>), StrVal(<<50>>), StrVal(<<120>>)),
      Rec(StrVal(<<51,48,49>>), IntVal(1), StrVal(<<122>>)),
      Rec(StrVal(<<51,48,49>>), StrVal(<<>>), StrVal(<<120>>)),
      Dict(Without(Rec(StrVal(<<51,48,49>>), StrVal(<<49>>), StrVal(<<120>>)).f, "id")),
      NonDict }

MergeRecords2 ==
    { Rec(StrVal(<<51,48,49>>), StrVal(<<49>>), StrVal(<<121>>)),
      Rec(StrVal(<<51,48,49>>), IntVal(2), StrVal(<<121>>)),
      Rec(StrVal(<<51,48,49>>), StrVal(<<51>>), StrVal(<<121>>)),
      Rec(StrVal(<<51,48,49>>), StrVal(<<>>), StrVal(<<121>>)),
      NonDict }

NoMerge == merge_records(<<>>, <<>>)

InitMergeRecords ==
    /\ arg \in [records1 : Lists(MergeRecords1, MaxListLen),
                records2 : Lists(MergeRecords2, MaxListLen)]
    /\ ret = NoMerge
    /\ calls = 0
    /\ game_type = Unused /\ disk = Unused /\ data = Unused
    /\ outdir = Unused /\ result = Unused /\ prev = Unused

\* merge_records(records1, records2)
MergeRecords ==
    /\ calls = 0
    /\ ret' = merge_records(arg.records1, arg.records2)
    /\ calls' = 1
    /\ UNCHANGED <<game_type, disk, data, outdir, result, prev, arg>>

NextMergeRecords == MergeRecords

SpecMergeRecords == InitMergeRecords /\ [][NextMergeRecords]_vars

\* ids(A): the ids of the records of A, as strings
Ids(records) == {record_id(records[n]) : n \in {m \in 1..Len(records) : Mergeable(records[m])}}

AllHaveIds(records) == \A n \in 1..Len(records) : Mergeable(records[n])

(* C2: when every record of A and B is an object with a non-empty id, the  *)
(* merged list has |ids(A) \cup ids(B)| records and holds each id of the   *)
(* union exactly once.                                                     *)
C2_DedupCount ==
    (calls = 1 /\ AllHaveIds(arg.records1) /\ AllHaveIds(arg.records2)) =>
      LET union == Ids(arg.records1) \cup Ids(arg.records2)
          merged == ret.merged_records
      IN /\ Len(merged) = Cardinality(union)
         /\ \A id \in union :
              Cardinality({n \in 1..Len(merged) : record_id(merged[n]) = id}) = 1

\* an id repeated inside A (as "1" and as 1) and present in B was merged
C2_Witness ==
    /\ calls = 1
    /\ AllHaveIds(arg.records1) /\ AllHaveIds(arg.records2)
    /\ Len(arg.records1) = 2 /\ Cardinality(Ids(arg.records1)) = 1
    /\ Ids(arg.records1) \cap Ids(arg.records2) # {}
    /\ Len(ret.merged_records) = 1

(* C3: for every id present in both lists the merged list keeps a record   *)
(* of A, never B's, and duplicate_records counts every discarded record of *)
(* B: one per record of B whose id is in A.                                *)
C3_FirstFileWins ==
    calls = 1 =>
      LET A == arg.records1
          B == arg.records2
          merged == ret.merged_records
          kept2 == {n \in 1..Len(B) : Mergeable(B[n])}
          hits == {n \in kept2 : record_id(B[n]) \in Ids(A)}
      IN /\ \A n \in 1..Len(merged) :
               record_id(merged[n]) \in Ids(A) \cap Ids(B) =>
                  /\ merged[n] \in Range(A)
                  /\ merged[n] \notin Range(B)
         /\ ret.stats.duplicate_records
               = Cardinality(kept2) - Cardinality(Ids(B) \ Ids(A))
         /\ ret.stats.duplicate_records >= Cardinality(hits)
         /\ Cardinality(Ids(B)) = Cardinality(kept2)
               => ret.stats.duplicate_records = Cardinality(hits)

\* B held two records whose id is in A; both were discarded and counted
C3_Witness ==
    /\ calls = 1
    /\ Len(arg.records2) = 2
    /\ \A n \in 1..2 : Mergeable(arg.records2[n])
                         /\ record_id(arg.records2[n]) \in Ids(arg.records1)
    /\ Cardinality(Ids(arg.records2)) = 2
    /\ ret.stats.duplicate_records = 2
    /\ Range(ret.merged_records) \subseteq Range(arg.records1)

\* the records of a list that neither loop looks at: no dict, or no id
Unmergeable(records) == {n \in 1..Len(records) : ~Mergeable(records[n])}

\* the records of A whose id an earlier record of A has already stored
RepeatedInFirst(records) ==
    {n \in 1..Len(records) :
        /\ Mergeable(records[n])
        /\ \E m \in 1..(n - 1) : /\ Mergeable(records[m])
                                 /\ record_id(records[m]) = record_id(records[n])}

(* C18 as stated: every record of either list is in the merged list or in  *)
(* a counter: file1_records + file2_records = total_merged_records +       *)
(* duplicate_records, for every pair of lists.                             *)
C18_NothingDropped ==
    calls = 1 =>
      ret.stats.file1_records + ret.stats.file2_records
         = ret.stats.total_merged_records + ret.stats.duplicate_records

(* C18, what the code keeps: the two sides differ by the records no        *)
(* counter sees, which are the non-objects and id-less records of both     *)
(* lists and the records of A that repeat an id of A.                      *)
C18_DroppedUncounted ==
    calls = 1 =>
      ret.stats.file1_records + ret.stats.file2_records
         = ret.stats.total_merged_records + ret.stats.duplicate_records
             + Cardinality(Unmergeable(arg.records1))
             + Cardinality(Unmergeable(arg.records2))
             + Cardinality(RepeatedInFirst(arg.records1))

\* a non-object of A and an id-less record of B left without a trace
C18_Witness ==
    /\ calls = 1
    /\ Len(arg.records1) = 2 /\ Len(arg.records2) = 2
    /\ \E n \in 1..2 : ~arg.records1[n].isdict
    /\ \E n \in 1..2 : arg.records2[n].isdict /\ ~Mergeable(arg.records2[n])
    /\ ret.stats.total_merged_records + ret.stats.duplicate_records = 2

\* ---------------------------------------------------------- the split

\* "301" with id "2"; "400" with id "10"; 301 (a number) with id "2" again;
\* "301" with id "a"; "200" with id 3; "301" without id, of a later time;
\* "200" without id and without time; a non-object
SplitRecords ==
    { Rec(StrVal(<<51,48,49>>), StrVal(<<50>>), StrVal(<<120>>)),
      Rec(StrVal(<<52,48,48>>), StrVal(<<49,48>>), StrVal(<<120>>)),
      Rec(IntVal(301), StrVal(<<50>>), StrVal(<<121>>)),
      Rec(StrVal(<<51,48,49>>), StrVal(<<97>>), StrVal(<<120>>)),
      Rec(StrVal(<<50,48,48>>), IntVal(3), StrVal(<<120>>)),
      Dict(Put(Without(Rec(StrVal(<<51,48,49>>), NoneVal, StrVal(<<120>>)).f, "id"),
               "time", StrVal(TimeLate))),
      Dict(Without(Without(Rec(StrVal(<<50,48,48>>), NoneVal, StrVal(<<120>>)).f,
                           "id"), "time")),
      NonDict }

SplitDocs(g) ==
    {Doc(InfoOf(IntVal(7), g), l) : l \in Lists(SplitRecords, MaxSplitLen)}

NoResult == [success |-> FALSE, error |-> "none", stats |-> NoStats]

InitSplit ==
    /\ game_type = "genshin"
    /\ data \in SplitDocs(game_type)
    /\ outdir = NoDir
    /\ result = NoResult
    /\ prev = [outdir |-> NoDir, result |-> NoResult]
    /\ calls = 0
    /\ disk = Unused /\ arg = Unused /\ ret = Unused

\* FileProcessor(game_type).process_records(data, output_dir), output_dir
\* being the directory of the previous call or a directory that is not there yet
ProcessRecords ==
    /\ calls < MaxCalls
    /\ \E env \in Envs, output_dir \in {outdir, NoDir} :
         \E r \in {process_records(data, game_type, output_dir, env, NoCallback)} :
            /\ result' = [success |-> r.success, error |-> r.error, stats |-> r.stats]
            /\ outdir' = r.outdir
            /\ data' = r.data
    /\ prev' = [outdir |-> outdir, result |-> result]
    /\ calls' = calls + 1
    /\ UNCHANGED <<game_type, disk, arg, ret>>

NextSplit == ProcessRecords

SpecSplit == InitSplit /\ [][NextSplit]_vars

CompleteFiles == {f \in DOMAIN outdir.files : outdir.files[f].complete}

FileIds(f) ==
    [n \in 1..Len(outdir.files[f].list) |-> Get(outdir.files[f].list[n], "id")]

\* the statement of C6 as written: strictly descending
C6_StrictlyDescending ==
    \A f \in CompleteFiles :
        LET ids == FileIds(f)
        IN (f.kind = "category" /\ \A n \in 1..Len(ids) : IntOk(ids[n])) =>
              \A n \in 1..(Len(ids) - 1) : IntOf(ids[n]) > IntOf(ids[n + 1])

(* C6, amended: a category file whose ids all parse as integers is sorted  *)
(* descending by the numeric id, each id at least the next one, and        *)
(* strictly so when no two of its ids have the same numeric value.         *)
C6_Descending ==
    \A f \in CompleteFiles :
        LET ids == FileIds(f)
        IN (f.kind = "category" /\ \A n \in 1..Len(ids) : IntOk(ids[n])) =>
              /\ \A n \in 1..(Len(ids) - 1) : IntOf(ids[n]) >= IntOf(ids[n + 1])
              /\ (\A m, n \in 1..Len(ids) : m # n => IntOf(ids[m]) # IntOf(ids[n]))
                    => \A n \in 1..(Len(ids) - 1) : IntOf(ids[n]) > IntOf(ids[n + 1])

\* the ids "2" then "10" went to one file, which holds 10 before 2
C6_Witness ==
    /\ calls >= 1
    /\ result.success
    /\ \E m, n \in 1..Len(data.list.items) :
          /\ m < n
          /\ Splittable(data.list.items[m], game_type)
          /\ Splittable(data.list.items[n], game_type)
          /\ record_id(data.list.items[m]) = <<50>>
          /\ record_id(data.list.items[n]) = <<49,48>>
    /\ \E f \in CompleteFiles :
          /\ Len(outdir.files[f].list) >= 2
          /\ FileIds(f)[1] = StrVal(<<49,48>>)
          /\ FileIds(f)[2] = StrVal(<<50>>)

(* C7: a split of the document that succeeds after a successful split of   *)
(* it, into the directory that split left or into a new one, returns the   *)
(* same statistics and leaves the same category files with the same        *)
(* records in the same order.                                              *)
C7_SplitIdempotent ==
    (calls >= 2 /\ prev.result.success /\ result.success) =>
        /\ result = prev.result
        /\ outdir = prev.outdir
        /\ CompleteFiles = DOMAIN outdir.files

\* two successful splits into the same directory each wrote a file of two
\* records
C7_Witness ==
    /\ calls = 2
    /\ prev.result.success /\ result.success
    /\ outdir = prev.outdir
    /\ \E f \in DOMAIN outdir.files : Len(outdir.files[f].list) >= 2

\* the n-th record of the document goes to the file of category c
GoesTo(n, c) ==
    /\ Splittable(data.list.items[n], game_type)
    /\ should_merge_gacha_type(game_type,
            PyStr(Get(data.list.items[n].f, "gacha_type"))) = c

(* C9: every file a split writes is the file of a valid category that is   *)
(* not folded into another, and every record in it carries that category   *)
(* as its gacha_type; after a successful split the file of category c      *)
(* holds exactly the records whose gacha_type is c or is folded into c.    *)
C9_FoldedIntoTarget ==
    calls >= 1 =>
      /\ \A f \in DOMAIN outdir.files :
            /\ f.kind = "category"
            /\ f.name \in Range(get_gacha_types(game_type))
            /\ ~Has(GAME_CONFIGS[game_type].merge_mapping, f.name)
            /\ \A n \in 1..Len(outdir.files[f].list) :
                  Get(outdir.files[f].list[n], "gacha_type") = StrVal(f.name)
      /\ (result.success /\ outdir.exists) =>
            \A c \in Range(get_gacha_types(game_type)) :
               LET from == {n \in 1..Len(data.list.items) : GoesTo(n, c)}
                   f == CategoryFile(c)
               IN IF from = {} THEN f \notin DOMAIN outdir.files
                  ELSE /\ f \in CompleteFiles
                       /\ Len(outdir.files[f].list) = Cardinality(from)
                       /\ \A n \in from :
                            \E m \in 1..Len(outdir.files[f].list) :
                               Get(outdir.files[f].list[m], "id")
                                  = StrVal(record_id(data.list.items[n]))

\* genshin: a "400" record and a "301" record both ended in 301.json
C9_Witness ==
    /\ calls >= 1
    /\ game_type = "genshin"
    /\ result.success
    /\ \E n \in 1..Len(data.list.items) :
          /\ data.list.items[n].isdict
          /\ Has(data.list.items[n].f, "gacha_type")
          /\ Get(data.list.items[n].f, "gacha_type") = StrVal(<<52,48,48>>)
    /\ CategoryFile(<<51,48,49>>) \in CompleteFiles
    /\ Len(outdir.files[CategoryFile(<<51,48,49>>)].list) >= 2
    /\ CategoryFile(<<52,48,48>>) \notin DOMAIN outdir.files


\* ------------------------------------- one call, with a progress callback

MaxRaiseAt == 2

\* no callback, one that never raises, one that raises at its k-th call
Callbacks == {NoCallback} \cup {Callback(k) : k \in 0..MaxRaiseAt}

\* ProgressEvery - 1 records of a pool that is not genshin's ("1", id "5"),
\* then a short list: the callback is called inside the loop iff the record
\* after them is split
LongDocs(g) ==
    {Doc(InfoOf(IntVal(7), g),
         [n \in 1..(ProgressEvery - 1) |->
             Rec(StrVal(<<49>>), StrVal(<<53>>), StrVal(<<120>>))] \o l) :
       l \in Lists(SplitRecords, MaxTail) \ {<<>>}}

NoLists == [records1 |-> <<>>, records2 |-> <<>>]

\* a document to split, or two lists to merge
InitCallback ==
    /\ game_type = "genshin"
    /\ \/ /\ data \in SplitDocs(game_type) \cup LongDocs(game_type)
          /\ arg = NoLists
       \/ /\ data = Doc(InfoOf(IntVal(7), game_type), <<>>)
          /\ arg \in [records1 : Lists(MergeRecords1, MaxTail),
                      records2 : Lists(MergeRecords2, MaxTail)]
    /\ outdir = NoDir
    /\ result = NoResult
    /\ ret = NoMerge
    /\ calls = 0
    /\ disk = Unused /\ prev = Unused

\* FileProcessor(game_type).process_records(data, output_dir, progress_callback);
\* result.progress is what the callback was given, call after call
ProcessRecordsCallback ==
    /\ calls = 0
    /\ \E env \in Envs, cb \in Callbacks :
         \E r \in {process_records(data, game_type, outdir, env, cb)} :
            /\ result' = [success |-> r.success, error |-> r.error, stats |-> r.stats,
                          progress |-> r.cb_log]
            /\ outdir' = r.outdir
            /\ data' = r.data
            /\ prev' = cb
    /\ calls' = 1
    /\ UNCHANGED <<game_type, disk, arg, ret>>

NextCallback == ProcessRecordsCallback \/ MergeRecords

SpecCallback == InitCallback /\ [][NextCallback]_vars

(* C16: a call of process_records, whether it succeeds or fails, leaves    *)
(* the caller's document and every record of its list as they were, also   *)
(* the records whose gacha_type is folded into another; a call of          *)
(* merge_records leaves both lists and their records as they were.         *)
C16_InputsUnchanged == [][data' = data /\ arg' = arg]_vars

\* a record "400" was split into 301.json and the caller still has its "400"
C16_Witness ==
    /\ calls = 1
    /\ result.success
    /\ \E n \in 1..Len(data.list.items) :
         /\ data.list.items[n].isdict
         /\ Get(data.list.items[n].f, "gacha_type") = StrVal(<<52,48,48>>)
    /\ Get(result.stats.gacha_types, <<51,48,49>>) >= 1
    /\ ~Has(result.stats.gacha_types, <<52,48,48>>)

RECURSIVE SumCounts(_)
SumCounts(gacha_types) ==
    IF gacha_types = <<>> THEN 0
    ELSE Head(gacha_types).v + SumCounts(Tail(gacha_types))

\* the callback of the call raised when the loop called it
RaisedInLoop ==
    /\ prev.given /\ prev.raise_at = 1
    /\ Len(data.list.items) >= ProgressEvery
    /\ Splittable(data.list.items[ProgressEvery], game_type)

(* C17 as stated: after a successful split, total_records =               *)
(* processed_records + skipped_records and processed_records is the sum of *)
(* the per-category counts, whatever the progress callback does.           *)
C17_EveryRecordCountedOnce ==
    (calls = 1 /\ result.success) =>
      /\ result.stats.total_records
            = result.stats.processed_records + result.stats.skipped_records
      /\ result.stats.processed_records = SumCounts(result.stats.gacha_types)

(* C17, what the code keeps: processed_records is the sum of the           *)
(* per-category counts; total_records = processed_records +                *)
(* skipped_records unless the callback raised inside the loop, and then    *)
(* the record it raised on is counted twice.                               *)
C17_CountedTwiceWhenCallbackRaises ==
    (calls = 1 /\ result.success) =>
      /\ result.stats.processed_records = SumCounts(result.stats.gacha_types)
      /\ result.stats.processed_records + result.stats.skipped_records
            = result.stats.total_records + (IF RaisedInLoop THEN 1 ELSE 0)

\* the callback raised on record 100, which is in a file and counted as
\* processed and as skipped
C17_Witness ==
    /\ calls = 1 /\ result.success
    /\ RaisedInLoop
    /\ result.stats.total_records = ProgressEvery
    /\ result.stats.processed_records = 1
    /\ result.stats.skipped_records = ProgressEvery

\* ---------------------------------------------------------- the merge

\* records of gacha_type "301".  File a's: id "2"; id 2, a number; id "10".
\* File b's: id 2, a number; id "10"; id "a"
MergeRecordsA ==
    { Rec(StrVal(<<51,48,49>>), StrVal(<<50>>), StrVal(<<120>>)),
      Rec(StrVal(<<51,48,49>>), IntVal(2), StrVal(<<120>>)),
      Rec(StrVal(<<51,48,49>>), StrVal(<<49,48>>), StrVal(<<120>>)) }

MergeRecordsB ==
    { Rec(StrVal(<<51,48,49>>), IntVal(2), StrVal(<<121>>)),
      Rec(StrVal(<<51,48,49>>), StrVal(<<49,48>>), StrVal(<<121>>)),
      Rec(StrVal(<<51,48,49>>), StrVal(<<97>>), StrVal(<<121>>)) }

\* the documents of the uids with records of S, and one for each uid whose
\* only record is not an object
MergeDocs(uids, S, g) ==
    {Doc(InfoOf(uid, g), l) : uid \in uids, l \in Lists(S, MaxMergeLen)}
    \cup {Doc(InfoOf(uid, g), <<NonDict>>) : uid \in uids}

\* file a is of uid "1" or 1 (a number), or is no good; file b is of uid "1"
\* or "2", or has no uid, or has a record of the gacha_type "9" after the
\* five that validate_json_structure samples
FilesA(g) ==
    {File(d) : d \in MergeDocs({StrVal(<<49>>), IntVal(1)}, MergeRecordsA, g)}
    \cup {BadFile(st) : st \in BadStatuses}

FilesB(g) ==
    {File(d) : d \in MergeDocs({StrVal(<<49>>), StrVal(<<50>>)}, MergeRecordsB, g)}
    \cup {File(Doc(Without(InfoOf(StrVal(<<49>>), g), "uid"), << >>))}
    \cup {File(Doc(InfoOf(StrVal(<<49>>), g),
                    [n \in 1..6 |->
                       Rec(StrVal(IF n = 6 THEN <<57>> ELSE <<51,48,49>>),
                           StrVal(NatDigits(n)), StrVal(<<121>>))]))}

NoCall == [file1_path |-> "", file2_path |-> "", convert_after_merge |-> FALSE]

NoMergeResult == [success |-> FALSE, error |-> "none", result_info |-> NoResultInfo]

InitMerge ==
    /\ game_type = "genshin"
    /\ disk \in [a : FilesA(game_type), b : FilesB(game_type)]
    /\ outdir = NoDir
    /\ result = NoMergeResult
    /\ arg = NoCall
    /\ calls = 0
    /\ data = Unused /\ prev = Unused /\ ret = Unused

\* FileMerger(game_type).merge_files(file1_path, file2_path, output_dir,
\* convert_after_merge), the paths being those of a and b, or of a twice
MergeFiles ==
    /\ calls = 0
    /\ \E paths \in {<<"a", "b">>, <<"b", "a">>, <<"a", "a">>},
          convert_after_merge \in BOOLEAN, env \in Envs :
         \E r \in {merge_files(paths[1], paths[2], disk, game_type, outdir,
                               convert_after_merge, env, NoCallback)} :
            /\ result' = [success |-> r.success, error |-> r.error,
                          result_info |-> r.result_info]
            /\ outdir' = r.outdir
            /\ arg' = [file1_path |-> paths[1], file2_path |-> paths[2],
                       convert_after_merge |-> convert_after_merge]
    /\ calls' = 1
    /\ UNCHANGED <<game_type, disk, data, prev, ret>>

NextMerge == MergeFiles

SpecMerge == InitMerge /\ [][NextMerge]_vars

\* the documents the call was given, first and second
Data1 == disk[arg.file1_path].doc
Data2 == disk[arg.file2_path].doc

\* the file has parsed to a document whose info has a uid
HasInfoUid(file) ==
    /\ file.status = "ok"
    /\ file.doc.isdict
    /\ file.doc.info.k = "dict"
    /\ Has(file.doc.info.f, "uid")

(* C1: merge_files on two documents whose info.uid differ as strings       *)
(* returns failure, whatever their records, and writes nothing.            *)
C1_UidMismatchFails ==
    ( /\ calls = 1
      /\ HasInfoUid(disk[arg.file1_path])
      /\ HasInfoUid(disk[arg.file2_path])
      /\ PyStr(Get(Data1.info.f, "uid")) # PyStr(Get(Data2.info.f, "uid")) )
    => (~result.success /\ outdir = NoDir)

\* two valid documents with records, of uid "1" and of uid "2", were refused
\* for their uids
C1_Witness ==
    /\ calls = 1
    /\ HasInfoUid(disk[arg.file1_path])
    /\ HasInfoUid(disk[arg.file2_path])
    /\ PyStr(Get(Data1.info.f, "uid")) # PyStr(Get(Data2.info.f, "uid"))
    /\ Data1.list.items # <<>>
    /\ Data2.list.items # <<>>
    /\ ~result.success
    /\ result.error = "uid_mismatch"

\* the merged file the call wrote
MergedFileWritten == outdir.files[MergedFile(result.result_info.uid)]

\* merge_files on the same two files in the other order, into a new
\* directory, with nothing failing
Swapped ==
    merge_files(arg.file2_path, arg.file1_path, disk, game_type, NoDir, FALSE,
                Env(TRUE, TRUE, 0, FALSE), NoCallback)

\* the merged file that a successful merge_files, returning r, has written
MergedFileOf(r) == r.outdir.files[MergedFile(r.result_info.uid)]

\* the ids of a list of records, as strings
StrIds(list) == {PyStr(Get(list[n], "id")) : n \in 1..Len(list)}

\* the statement of C4 as written: the same ids and the same info.uid value
C4_SameUidValue ==
    (calls = 1 /\ result.success) =>
        \A s \in {Swapped} :
            /\ s.success
            /\ StrIds(MergedFileWritten.list) = StrIds(MergedFileOf(s).list)
            /\ Get(MergedFileWritten.info, "uid") = Get(MergedFileOf(s).info, "uid")

(* C4, amended: when merge_files succeeds on two files, it succeeds on     *)
(* them in the other order too, the two merged lists have the same set of  *)
(* ids (as strings), and the two merged infos have uids that are the same  *)
(* string under str(), each being the uid of its first file as that file   *)
(* has it; the merged file has the same name.                              *)
C4_SameIdsSameUidString ==
    (calls = 1 /\ result.success) =>
        \A s \in {Swapped} :
            /\ s.success
            /\ StrIds(MergedFileWritten.list) = StrIds(MergedFileOf(s).list)
            /\ PyStr(Get(MergedFileWritten.info, "uid"))
                  = PyStr(Get(MergedFileOf(s).info, "uid"))
            /\ Get(MergedFileWritten.info, "uid") = Get(Data1.info.f, "uid")
            /\ Get(MergedFileOf(s).info, "uid") = Get(Data2.info.f, "uid")
            /\ result.result_info.uid = s.result_info.uid
            /\ result.result_info.merged_filename = s.result_info.merged_filename

\* two files were merged that share an id and each have an id of their own
C4_Witness ==
    /\ calls = 1
    /\ result.success
    /\ LET ids1 == {record_id(Data1.list.items[n]) : n \in 1..Len(Data1.list.items)}
           ids2 == {record_id(Data2.list.items[n]) : n \in 1..Len(Data2.list.items)}
       IN /\ ids1 \cap ids2 # {}
          /\ ids1 \ ids2 # {}
          /\ ids2 \ ids1 # {}

\* the ids of the document's records as the JSON has them, and as strings
RawIdList(d) == [n \in 1..Len(d.list.items) |-> Get(d.list.items[n].f, "id")]
StrIdList(d) == [n \in 1..Len(d.list.items) |-> record_id(d.list.items[n])]

\* no two elements of the sequence are equal
Distinct(seq) == \A m, n \in 1..Len(seq) : m # n => seq[m] # seq[n]

\* the number of ids, as strings, that both documents have
Overlap == Cardinality(Range(StrIdList(Data1)) \cap Range(StrIdList(Data2)))

MergedFileOnDisk ==
    /\ outdir.exists
    /\ HasInfoUid(disk[arg.file1_path])
    /\ MergedFile(PyStr(Get(Data1.info.f, "uid"))) \in DOMAIN outdir.files
    /\ outdir.files[MergedFile(PyStr(Get(Data1.info.f, "uid")))].complete

(* C12: when merge_files is called with convert_after_merge and has        *)
(* written the merged file, it returns success with the merge statistics   *)
(* and the merged file's name whether the split that follows succeeds or   *)
(* not; a split that fails is reported in convert_error, with no converted *)
(* files and no conversion statistics, and the merged file stays.          *)
C12_ConvertFailureKeepsMerge ==
    (calls = 1 /\ arg.convert_after_merge /\ MergedFileOnDisk) =>
        /\ result.success
        /\ result.result_info.merged_filename
              = MergedFile(PyStr(Get(Data1.info.f, "uid")))
        /\ result.result_info.merge_stats
              = merge_records(Data1.list.items, Data2.list.items).stats
        /\ result.result_info.convert_error # "" =>
              /\ result.result_info.converted_files = << >>
              /\ result.result_info.convert_stats = NoStats
        /\ result.result_info.convert_error = "" =>
              \A n \in 1..Len(result.result_info.converted_files) :
                 CategoryFile(result.result_info.converted_files[n]) \in CompleteFiles

\* a merge with conversion succeeded though the write of a category file
\* failed; the merged file is there
C12_Witness ==
    /\ calls = 1
    /\ arg.convert_after_merge
    /\ MergedFileOnDisk
    /\ result.success
    /\ result.result_info.convert_error = "write_failed"
    /\ result.result_info.merge_stats.total_merged_records >= 2

\* ------------------------------------ the pre-merge validation on its own

\* a record of the game's first gacha_type, and one of the other game's
OwnRecord(g) == Rec(StrVal(get_gacha_types(g)[1]), StrVal(<<50>>), StrVal(<<120>>))

ForeignRecord(g) ==
    Rec(StrVal(get_gacha_types(CHOOSE h \in GameTypes : h # g)[1]), StrVal(<<51>>),
        StrVal(<<120>>))

\* no record, one record of either kind, or the five records of the game's
\* own that validate_json_structure samples and then some of either kind
PreMergeLists(g) ==
    {<< >>, <<OwnRecord(g)>>, <<ForeignRecord(g)>>}
    \cup {[n \in 1..5 |-> OwnRecord(g)] \o tail :
            tail \in Lists({OwnRecord(g), ForeignRecord(g)}, MaxTail) \ {<< >>}}

\* files of uid "1" and of uid "2", one without a uid, and those that do
\* not load
PreMergeFiles(g) ==
    {File(Doc(InfoOf(uid, g), l)) :
        uid \in {StrVal(<<49>>), StrVal(<<50>>)}, l \in PreMergeLists(g)}
    \cup {File(Doc(Without(InfoOf(StrVal(<<49>>), g), "uid"), <<OwnRecord(g)>>))}
    \cup {BadFile(st) : st \in BadStatuses}

NoPaths == [file1_path |-> "", file2_path |-> ""]

InitPreMerge ==
    /\ game_type \in GameTypes
    /\ disk \in [a : PreMergeFiles(game_type), b : PreMergeFiles(game_type)]
    /\ arg = NoPaths
    /\ ret = CannotMerge("none")
    /\ calls = 0
    /\ data = Unused /\ outdir = Unused /\ result = Unused /\ prev = Unused

\* FileMerger(game_type).validate_merge_files(file1_path, file2_path)
ValidateMergeFiles ==
    /\ calls = 0
    /\ \E paths \in {<<"a", "b">>, <<"b", "a">>, <<"a", "a">>} :
         /\ ret' = validate_merge_files(paths[1], paths[2], disk, game_type)
         /\ arg' = [file1_path |-> paths[1], file2_path |-> paths[2]]
    /\ calls' = 1
    /\ UNCHANGED <<game_type, disk, data, outdir, result, prev>>

NextPreMerge == ValidateMergeFiles

SpecPreMerge == InitPreMerge /\ [][NextPreMerge]_vars

\* both files of the call are there, are two files, and have parsed
BothLoaded ==
    /\ calls = 1
    /\ arg.file1_path # arg.file2_path
    /\ disk[arg.file1_path].status = "ok"
    /\ disk[arg.file2_path].status = "ok"

\* the document does not pass validate_json_structure
BadFormat(d) == ~validate_json_structure(d, game_type).ok

\* the two documents have a uid each, and the two differ as strings
UidsDiffer ==
    /\ HasInfoUid(disk[arg.file1_path])
    /\ HasInfoUid(disk[arg.file2_path])
    /\ PyStr(Get(Data1.info.f, "uid")) # PyStr(Get(Data2.info.f, "uid"))

\* a record of the document, sampled or not, has a gacha_type the game has not
HasForeignType(d) ==
    \E n \in 1..Len(d.list.items) :
        /\ d.list.items[n].isdict
        /\ Has(d.list.items[n].f, "gacha_type")
        /\ PyStr(Get(d.list.items[n].f, "gacha_type"))
              \notin Range(get_gacha_types(game_type))

(* C11: on two files that load, validate_merge_files reports the first     *)
(* failure in the order format of file 1, format of file 2, uid equality,  *)
(* gacha_type validity, combined record count, whatever else fails too;    *)
(* it accepts the files when none of these fails.                          *)
C11_FirstFailureReported ==
    BothLoaded =>
        IF BadFormat(Data1)
        THEN ret.error_type = "format_incompatible" /\ ret.file = 1
        ELSE IF BadFormat(Data2)
        THEN ret.error_type = "format_incompatible" /\ ret.file = 2
        ELSE IF UidsDiffer THEN ret.error_type = "uid_mismatch"
        ELSE IF HasForeignType(Data1) \/ HasForeignType(Data2)
        THEN ret.error_type = "game_type_incompatible"
        ELSE IF Len(Data1.list.items) + Len(Data2.list.items) = 0
        THEN ret.error_type = "no_records"
        ELSE ret.ok /\ ret.uid = PyStr(Get(Data1.info.f, "uid"))

\* two well-formed files whose uids differ, one of them with a foreign
\* gacha_type after its sampled records, were refused for their uids
C11_Witness ==
    /\ BothLoaded
    /\ ~BadFormat(Data1) /\ ~BadFormat(Data2)
    /\ UidsDiffer
    /\ HasForeignType(Data1) \/ HasForeignType(Data2)
    /\ ret.error_type = "uid_mismatch"

\* ------------------------------------- FileRepairer._is_valid_time_format

\* s cut at every sep
RECURSIVE Split(_, _)
Split(s, sep) ==
    IF \A j \in 1..Len(s) : s[j] # sep THEN <<s>>
    ELSE LET n == CHOOSE m \in 1..Len(s) :
                     s[m] = sep /\ \A j \in 1..(m - 1) : s[j] # sep
         IN <<SubSeq(s, 1, n - 1)>> \o Split(SubSeq(s, n + 1, Len(s)), sep)

AllDigits(s) == s # <<>> /\ \A j \in 1..Len(s) : IsDigit(s[j])

\* a directive of one or two digits (%m, %d, %H, %M, %S) whose value is in lo..hi
TwoDigits(s, lo, hi) ==
    /\ AllDigits(s)
    /\ Len(s) \in {1, 2}
    /\ DigitsValue(s, 0) \in lo..hi

DaysIn(month, year) ==
    IF month \in {4, 6, 9, 11} THEN 30
    ELSE IF month # 2 THEN 31
    ELSE IF year % 4 = 0 /\ (year % 100 # 0 \/ year % 400 = 0) THEN 29
    ELSE 28

\* %Y<sep>%m<sep>%d, a date datetime accepts
ValidDate(s, sep) ==
    LET parts == Split(s, sep)
    IN /\ Len(parts) = 3
       /\ AllDigits(parts[1]) /\ Len(parts[1]) = 4 /\ DigitsValue(parts[1], 0) >= 1
       /\ TwoDigits(parts[2], 1, 12)
       /\ TwoDigits(parts[3], 1, 31)
       /\ DigitsValue(parts[3], 0)
             <= DaysIn(DigitsValue(parts[2], 0), DigitsValue(parts[1], 0))

\* %H:%M:%S or %H:%M
ValidClock(s) ==
    LET parts == Split(s, 58)
    IN /\ Len(parts) \in {2, 3}
       /\ TwoDigits(parts[1], 0, 23)
       /\ TwoDigits(parts[2], 0, 59)
       /\ Len(parts) = 3 => TwoDigits(parts[3], 0, 59)

(* datetime.strptime(time_str, fmt) succeeds for one of the six formats:   *)
(* a date with "-" or with "/", alone or followed by blanks and a clock.   *)
(* The whole string must match.  (%d also takes a day written as a blank   *)
(* and a digit, which no input here has.)                                  *)
_is_valid_time_format(time_str) ==
    \E sep \in {45, 47} :
        IF \A j \in 1..Len(time_str) : ~IsSpace(time_str[j])
        THEN ValidDate(time_str, sep)
        ELSE LET n == CHOOSE m \in 1..Len(time_str) :
                         /\ IsSpace(time_str[m])
                         /\ \A j \in 1..(m - 1) : ~IsSpace(time_str[j])
             IN /\ ValidDate(SubSeq(time_str, 1, n - 1), sep)
                /\ ValidClock(LStrip(SubSeq(time_str, n, Len(time_str))))

\* ------------------------------------------ FileRepairer.fix_time_format

\* "2023-01-01 00:00:00"
DefaultTime == <<50,48,50,51,45,48,49,45,48,49,32,48,48,58,48,48,58,48,48>>

\* re.sub(r'[/\\.]', '-', ...), re.sub(r'[：]', ':', ...)
FixSeparators(s) ==
    [j \in 1..Len(s) |->
        IF s[j] \in {47, 92, 46} THEN 45
        ELSE IF s[j] = 65306 THEN 58
        ELSE s[j]]

\* re.sub(r'\s+', ' ', ...): every run of blanks becomes one space
RECURSIVE OneSpace(_)
OneSpace(s) ==
    IF s = <<>> THEN <<>>
    ELSE IF IsSpace(Head(s)) THEN <<32>> \o OneSpace(LStrip(s))
    ELSE <<Head(s)>> \o OneSpace(Tail(s))

\* the digits s has from position pos on
DigitRun(s, pos) ==
    CHOOSE n \in 0..(Len(s) - pos + 1) :
        /\ \A j \in pos..(pos + n - 1) : IsDigit(s[j])
        /\ (pos + n > Len(s) \/ ~IsDigit(s[pos + n]))

\* str.zfill(2)
ZFill2(s) == IF Len(s) < 2 THEN <<48>> \o s ELSE s

NoMatch == [ok |-> FALSE, groups |-> << >>, next |-> 0]

\* (\d{1,2}) and the character after it, from position pos: the digits are
\* all the digits there are
GroupThen(s, pos, after) ==
    LET r == DigitRun(s, pos)
    IN IF r \in {1, 2} /\ pos + r <= Len(s) /\ s[pos + r] = after
       THEN [ok |-> TRUE, groups |-> <<SubSeq(s, pos, pos + r - 1)>>, next |-> pos + r + 1]
       ELSE NoMatch

\* (\d{1,2}) with nothing asked after it: two digits if there are two
GroupLast(s, pos) ==
    LET r == DigitRun(s, pos)
    IN IF r >= 1
       THEN [ok |-> TRUE, groups |-> <<SubSeq(s, pos, pos + Min(r, 2) - 1)>>,
             next |-> pos + Min(r, 2)]
       ELSE NoMatch

\* (\d{4})-(\d{1,2})- at the start of s
YearMonth(s) ==
    IF DigitRun(s, 1) = 4 /\ Len(s) >= 5 /\ s[5] = 45
    THEN LET m == GroupThen(s, 6, 45)
         IN IF m.ok THEN [m EXCEPT !.groups = <<SubSeq(s, 1, 4)>> \o @] ELSE NoMatch
    ELSE NoMatch

\* one match after another: b is tried where a has ended
Then(a, b) == IF a.ok /\ b.ok THEN [b EXCEPT !.groups = a.groups \o @] ELSE NoMatch

\* the three patterns, each with re.match: the string may go on after the
\* first two; the blanks are single spaces by now
Pattern1(s) ==
    LET ym == YearMonth(s)
        d == IF ym.ok THEN GroupThen(s, ym.next, 32) ELSE NoMatch
        h == IF d.ok THEN GroupThen(s, d.next, 58) ELSE NoMatch
        m == IF h.ok THEN GroupThen(s, h.next, 58) ELSE NoMatch
        sec == IF m.ok THEN GroupLast(s, m.next) ELSE NoMatch
    IN Then(Then(Then(Then(ym, d), h), m), sec)

Pattern2(s) ==
    LET ym == YearMonth(s)
        d == IF ym.ok THEN GroupThen(s, ym.next, 32) ELSE NoMatch
        h == IF d.ok THEN GroupThen(s, d.next, 58) ELSE NoMatch
        m == IF h.ok THEN GroupLast(s, h.next) ELSE NoMatch
    IN Then(Then(Then(ym, d), h), m)

Pattern3(s) ==
    LET ym == YearMonth(s)
        d == IF ym.ok THEN GroupLast(s, ym.next) ELSE NoMatch
    IN IF d.ok /\ d.next = Len(s) + 1 /\ DigitRun(s, ym.next) \in {1, 2}
       THEN Then(ym, d) ELSE NoMatch

\* the replacement of a match: every group but the year filled to two digits
Replacement(groups) ==
    LET g == [n \in 1..Len(groups) |-> IF n = 1 THEN groups[n] ELSE ZFill2(groups[n])]
        date == g[1] \o <<45>> \o g[2] \o <<45>> \o g[3]
    IN IF Len(g) = 6 THEN date \o <<32>> \o g[4] \o <<58>> \o g[5] \o <<58>> \o g[6]
       ELSE IF Len(g) = 5 THEN date \o <<32>> \o g[4] \o <<58>> \o g[5] \o <<58,48,48>>
       ELSE date \o <<32,48,48,58,48,48,58,48,48>>

\* return "2023-01-01 00:00:00", False
NotFixed == [time |-> StrVal(DefaultTime), success |-> FALSE]

\* the loop over the patterns: the replacement of the first of the matches
\* good that is a valid time, or the default time
FirstGood(tries, good) ==
    IF good = {} THEN NotFixed
    ELSE [time |-> StrVal(Replacement(
                      tries[CHOOSE m \in good : \A o \in good : m <= o].groups)),
          success |-> TRUE]

\* the matches of the three patterns on t, the string with its separators
\* and blanks fixed
Matched(tries) ==
    FirstGood(tries, {n \in 1..3 : /\ tries[n].ok
                                   /\ _is_valid_time_format(Replacement(tries[n].groups))})

\* fix_time_format from time_str = time_str.strip() on
FixStripped(time_str, t) ==
    IF _is_valid_time_format(time_str) THEN [time |-> StrVal(time_str), success |-> TRUE]
    ELSE Matched(<<Pattern1(t), Pattern2(t), Pattern3(t)>>)

\* re.sub on time_str, one after the other
Substituted(time_str) == OneSpace(FixSeparators(time_str))

(* fix_time_format(time_str): [time, success].  A string of 10 or 13       *)
(* digits is a timestamp, whose text depends on the time zone of the       *)
(* machine; no input here has one, and the operator takes it through the   *)
(* patterns like any other string.                                         *)
fix_time_format(v) ==
    IF ~Truthy(v) \/ ~IsStr(v) THEN NotFixed
    ELSE FixStripped(Strip(v.s), Substituted(Strip(v.s)))

\* ------------------------------------- FileRepairer.analyze_file_issues

\* an entry of a bucket of issues or of fixes: what it says, the number of
\* the record it is about (0: the info, or no record) and the field
Issue(kind, idx, field) == [kind |-> kind, idx |-> idx, field |-> field]

NoIssues ==
    [file_errors |-> << >>, structure_errors |-> << >>, info_errors |-> << >>,
     record_errors |-> << >>, duplicate_ids |-> << >>,
     time_format_errors |-> << >>, data_type_errors |-> << >>]

RECURSIVE Flatten(_)
Flatten(seqs) == IF seqs = <<>> THEN <<>> ELSE Head(seqs) \o Flatten(Tail(seqs))

\* the entries _analyze_info_issues appends, bucket by bucket
_analyze_info_issues(info, g) ==
    LET fields == required_info_fields(g)
    IN [info_errors |->
          Flatten([n \in 1..Len(fields) |->
             IF ~Has(info, fields[n]) THEN <<Issue("missing", 0, fields[n])>>
             ELSE IF IsBlank(Get(info, fields[n]))
             THEN <<Issue("empty", 0, fields[n])>>
             ELSE <<>>]),
        data_type_errors |->
          Flatten([n \in 1..Len(fields) |->
             IF /\ Has(info, fields[n])
                /\ ~IsBlank(Get(info, fields[n]))
                /\ ~IsStr(Get(info, fields[n]))
             THEN <<Issue("not_string", 0, fields[n])>>
             ELSE <<>>])]

string_fields ==
    <<"gacha_type", "time", "name", "item_type", "rank_type", "id", "uid", "lang",
      "item_id", "count">>

_check_record_data_types(record, record_index) ==
    Flatten([n \in 1..Len(string_fields) |->
       IF /\ Has(record, string_fields[n])
          /\ Get(record, string_fields[n]) # NoneVal
          /\ ~IsStr(Get(record, string_fields[n]))
       THEN <<Issue("not_string", record_index, string_fields[n])>>
       ELSE <<>>])

\* "id" in record and record["id"]
HasId(record) == record.isdict /\ Has(record.f, "id") /\ Truthy(Get(record.f, "id"))

\* an earlier record of the list has the id of record number n
SeenBefore(records, n) ==
    \E m \in 1..(n - 1) :
        /\ HasId(records[m])
        /\ PyStr(Get(records[m].f, "id")) = PyStr(Get(records[n].f, "id"))

\* the entries _analyze_record_issues appends for record number n
RecordIssues(records, n, g) ==
    LET record == records[n]
        fields == required_record_fields
    IN IF ~record.isdict
       THEN [NoIssues EXCEPT !.record_errors = <<Issue("not_object", n, "")>>]
       ELSE
         [NoIssues EXCEPT
            !.record_errors =
               Flatten([k \in 1..Len(fields) |->
                  IF ~Has(record.f, fields[k]) THEN <<Issue("missing", n, fields[k])>>
                  ELSE IF /\ fields[k] \in {"gacha_type", "time", "id"}
                          /\ IsBlank(Get(record.f, fields[k]))
                  THEN <<Issue("empty", n, fields[k])>>
                  ELSE <<>>])
               \o (IF /\ Has(record.f, "gacha_type")
                      /\ Truthy(Get(record.f, "gacha_type"))
                      /\ PyStr(Get(record.f, "gacha_type")) \notin Range(get_gacha_types(g))
                   THEN <<Issue("invalid_gacha_type", n, "gacha_type")>>
                   ELSE <<>>),
            !.data_type_errors = _check_record_data_types(record.f, n),
            !.time_format_errors =
               IF /\ Has(record.f, "time")
                  /\ Truthy(Get(record.f, "time"))
                  /\ ~_is_valid_time_format(PyStr(Get(record.f, "time")))
               THEN <<Issue("bad_time", n, "time")>>
               ELSE <<>>,
            !.duplicate_ids =
               IF HasId(record) /\ SeenBefore(records, n)
               THEN <<Issue("duplicate", n, "id")>>
               ELSE <<>>]

\* the entries of every record, put together bucket by bucket
Buckets(each) ==
    [record_errors |-> Flatten([n \in 1..Len(each) |-> each[n].record_errors]),
     data_type_errors |-> Flatten([n \in 1..Len(each) |-> each[n].data_type_errors]),
     time_format_errors |->
        Flatten([n \in 1..Len(each) |-> each[n].time_format_errors]),
     duplicate_ids |-> Flatten([n \in 1..Len(each) |-> each[n].duplicate_ids])]

\* the entries _analyze_record_issues appends, bucket by bucket
_analyze_record_issues(records, g) ==
    Buckets([n \in 1..Len(records) |-> RecordIssues(records, n, g)])

\* the structure_errors of a document whose root is an object
StructureErrors(d) ==
    (IF d.info.k = "absent" THEN <<Issue("missing_info", 0, "info")>>
     ELSE IF d.info.k # "dict" THEN <<Issue("info_not_object", 0, "info")>>
     ELSE <<>>)
    \o (IF d.list.k = "absent" THEN <<Issue("missing_list", 0, "list")>>
        ELSE IF d.list.k # "list" THEN <<Issue("list_not_array", 0, "list")>>
        ELSE <<>>)

\* the file cannot be read: data is None
NotLoaded(kind) ==
    [issues |-> [NoIssues EXCEPT !.file_errors = <<Issue(kind, 0, "")>>],
     loaded |-> FALSE, data |-> << >>]

\* the issues of a document whose structure is right: i is what
\* _analyze_info_issues has appended, r what _analyze_record_issues has
IssuesOf(i, r) ==
    [NoIssues EXCEPT
       !.info_errors = i.info_errors,
       !.record_errors = r.record_errors,
       !.duplicate_ids = r.duplicate_ids,
       !.time_format_errors = r.time_format_errors,
       !.data_type_errors = i.data_type_errors \o r.data_type_errors]

(* analyze_file_issues(file_path): [issues, loaded, data]; loaded is FALSE *)
(* when the data returned is None.  A file of 0 bytes is no JSON text.     *)
analyze_file_issues(file, g) ==
    IF file.status = "missing" THEN NotLoaded("file_not_found")
    ELSE IF file.status = "unreadable" THEN NotLoaded("file_unreadable")
    ELSE IF file.status \in {"bad_json", "empty"} THEN NotLoaded("json_format_error")
    ELSE IF file.status = "bad_encoding" THEN NotLoaded("encoding_error")
    ELSE IF ~file.doc.isdict
    THEN [issues |-> [NoIssues EXCEPT !.structure_errors =
                                         <<Issue("root_not_object", 0, "")>>],
          loaded |-> TRUE, data |-> file.doc]
    ELSE IF StructureErrors(file.doc) # <<>>
    THEN [issues |-> [NoIssues EXCEPT !.structure_errors = StructureErrors(file.doc)],
          loaded |-> TRUE, data |-> file.doc]
    ELSE [issues |-> IssuesOf(_analyze_info_issues(file.doc.info.f, g),
                              _analyze_record_issues(file.doc.list.items, g)),
          loaded |-> TRUE, data |-> file.doc]

\* -------------------------------------------- FileRepairer: the fixes

\* "000000000", "未知物品", "未知类型"
DefaultUid == <<48,48,48,48,48,48,48,48,48>>
UnknownItem == <<26410,30693,29289,21697>>
UnknownType == <<26410,30693,31867,22411>>

\* str(1000000000 + record_index)
SyntheticBase == 1000000000

\* the default values _fix_info_fields fills in
InfoDefault(field, g) ==
    CASE field = "uid" -> StrVal(DefaultUid)
      [] field = "lang" -> StrVal(LangZhCn)
      [] field = "export_time" -> StrVal(Now)
      [] OTHER -> IF g = "genshin" THEN StrVal(UigfVersion) ELSE StrVal(SrgfVersion)

\* the missing field of info is left as it is: nothing is filled in
KeepInfoField(st, field, g) == st

\* both loops of _fix_info_fields for one field: the default where the field
\* is missing or blank, then str() where the value is no string
FixInfoField(st, field, g) ==
    LET blank == ~Has(st.info, field) \/ IsBlank(Get(st.info, field))
        filled == IF blank THEN Put(st.info, field, InfoDefault(field, g)) ELSE st.info
        v == Get(filled, field)
        convert == v # NoneVal /\ ~IsStr(v)
    IN [info |-> IF convert THEN Put(filled, field, StrVal(PyStr(v))) ELSE filled,
        missing_fields |->
           st.missing_fields \o
              (IF blank THEN <<Issue("info_default", 0, field)>> ELSE <<>>),
        data_types |->
           st.data_types \o
              (IF convert THEN <<Issue("info_to_str", 0, field)>> ELSE <<>>)]

RECURSIVE FixInfoLoop(_, _, _)
FixInfoLoop(st, fields, g) ==
    IF fields = <<>> THEN st
    ELSE FixInfoLoop(FixInfoField(st, Head(fields), g), Tail(fields), g)

\* _fix_info_fields(info, issues_fixed): the fixed info and what it appends
\* to issues_fixed
_fix_info_fields(info, g) ==
    FixInfoLoop([info |-> info, missing_fields |-> <<>>, data_types |-> <<>>],
                required_info_fields(g), g)

\* the last record of every id is kept, not the first
KeepLast(records) ==
    LET kept == {n \in 1..Len(records) :
                    ~HasId(records[n]) \/
                    ~\E m \in (n + 1)..Len(records) :
                        /\ HasId(records[m])
                        /\ PyStr(Get(records[m].f, "id")) = PyStr(Get(records[n].f, "id"))}
        unique_records == SelectSeq([n \in 1..Len(records) |-> [n |-> n, r |-> records[n]]],
                                    LAMBDA x : x.n \in kept)
    IN [unique_records |-> [n \in 1..Len(unique_records) |-> unique_records[n].r],
        removed_count |-> Len(records) - Len(unique_records)]

\* remove_duplicates(records): the first record of every id, and every
\* record without one
remove_duplicates(records) ==
    LET kept == {n \in 1..Len(records) :
                    ~HasId(records[n]) \/ ~SeenBefore(records, n)}
        unique_records == SelectSeq([n \in 1..Len(records) |-> [n |-> n, r |-> records[n]]],
                                    LAMBDA x : x.n \in kept)
    IN [unique_records |-> [n \in 1..Len(unique_records) |-> unique_records[n].r],
        removed_count |-> Len(records) - Len(unique_records)]

\* _get_smart_default_value(field, record, record_index)
_get_smart_default_value(field, g, record_index) ==
    CASE field = "gacha_type" -> StrVal(get_gacha_types(g)[1])
      [] field = "time" -> StrVal(DefaultTime)
      [] field = "name" -> StrVal(UnknownItem)
      [] field = "item_type" -> StrVal(UnknownType)
      [] field = "rank_type" -> StrVal(<<51>>)
      [] field = "id" -> StrVal(NatDigits(SyntheticBase + record_index))
      [] field = "uid" -> StrVal(DefaultUid)
      [] field = "lang" -> StrVal(LangZhCn)
      [] field = "item_id" -> StrVal(<<48>>)
      [] field = "count" -> StrVal(<<49>>)
      [] OTHER -> NoneVal

optional_fields == <<"uid", "lang", "item_id", "count">>

\* default_values: {"uid": default_uid, "lang": "zh-cn", "count": "1"}
DefaultValue(field, default_uid, g, record_index) ==
    CASE field = "uid" -> StrVal(default_uid)
      [] field = "lang" -> StrVal(LangZhCn)
      [] field = "count" -> StrVal(<<49>>)
      [] OTHER -> _get_smart_default_value(field, g, record_index)

\* one turn of either loop of fix_missing_fields; kind says which loop
FillField(st, field, kind, default_uid, g, record_index) ==
    LET absent == \/ ~Has(st.record, field)
                  \/ IF kind = "required" THEN IsBlank(Get(st.record, field))
                     ELSE ~Truthy(Get(st.record, field))
    IN IF ~absent THEN st
       ELSE [record |-> Put(st.record, field,
                            DefaultValue(field, default_uid, g, record_index)),
             fixes |-> Append(st.fixes, Issue(kind, record_index + 1, field))]

RECURSIVE FillLoop(_, _, _, _, _, _)
FillLoop(st, fields, kind, default_uid, g, record_index) ==
    IF fields = <<>> THEN st
    ELSE FillLoop(FillField(st, Head(fields), kind, default_uid, g, record_index),
                  Tail(fields), kind, default_uid, g, record_index)

\* fix_missing_fields(record, default_values, record_index): [record, fixes]
fix_missing_fields(record, default_uid, g, record_index) ==
    FillLoop(FillLoop([record |-> record, fixes |-> <<>>], required_record_fields,
                      "required", default_uid, g, record_index),
             optional_fields, "optional", default_uid, g, record_index)

\* fix_data_types(record): [record, fixes]; str() of a JSON value never fails
fix_data_types(record, record_index) ==
    LET wrong == {n \in 1..Len(string_fields) :
                    /\ Has(record, string_fields[n])
                    /\ Get(record, string_fields[n]) # NoneVal
                    /\ ~IsStr(Get(record, string_fields[n]))}
    IN [record |-> [n \in 1..Len(record) |->
                      IF \E k \in wrong : string_fields[k] = record[n].k
                      THEN [k |-> record[n].k, v |-> StrVal(PyStr(record[n].v))]
                      ELSE record[n]],
        fixes |-> Flatten([n \in 1..Len(string_fields) |->
                     IF n \in wrong
                     THEN <<Issue("to_str", record_index + 1, string_fields[n])>>
                     ELSE <<>>])]

\* f"第{i+1}条记录: '{original_time}' -> '{fixed_time}'": the text of the
\* entry is the same whether fix_time_format succeeded or not
TimeEntry(idx, original_time, fixed_time) ==
    [kind |-> "time", idx |-> idx, field |-> "time",
     original_time |-> original_time, fixed_time |-> fixed_time]

\* if not success or fixed_time != original_time, t being what
\* fix_time_format has returned
TimeFixed(record, record_index, t) ==
    IF ~t.success \/ t.time # Get(record, "time")
    THEN [record |-> Put(record, "time", t.time),
          fixes |-> <<TimeEntry(record_index + 1, Get(record, "time"), t.time)>>]
    ELSE [record |-> record, fixes |-> <<>>]

\* the time of a record as _fix_records leaves it: [record, fixes]
FixTime(record, record_index) ==
    IF ~(Has(record, "time") /\ Truthy(Get(record, "time")))
    THEN [record |-> record, fixes |-> <<>>]
    ELSE TimeFixed(record, record_index, fix_time_format(Get(record, "time")))

\* fixed_records.append(fixed_record) and the callback, m, d and t being
\* what the three fixes of the record have returned
Appended(st, m, d, t, cb, fires) ==
    [i |-> st.i + 1,
     fixed_records |-> Append(st.fixed_records, Dict(t.record)),
     missing_fields |-> st.missing_fields \o m.fixes,
     data_types |-> st.data_types \o d.fixes,
     time_formats |-> st.time_formats \o t.fixes,
     cb_calls |-> st.cb_calls + (IF fires THEN 1 ELSE 0),
     raised |-> fires /\ cb.raise_at = st.cb_calls + 1]

\* the record after fix_data_types, d
TypesFixed(st, m, d, cb) ==
    Appended(st, m, d, FixTime(d.record, st.i), cb,
             cb.given /\ (st.i + 1) % ProgressEvery = 0)

\* the record after fix_missing_fields, m
FieldsFixed(st, m, cb) == TypesFixed(st, m, fix_data_types(m.record, st.i), cb)

(* one turn of the loop of _fix_records over unique_records, on the record *)
(* of index st.i.  A record that is no object is dropped; the callback is  *)
(* called after every hundredth record that is one, and st.raised says     *)
(* that it raised.                                                         *)
FixRecord(st, record, default_uid, g, cb) ==
    IF ~record.isdict THEN [st EXCEPT !.i = @ + 1]
    ELSE FieldsFixed(st, fix_missing_fields(record.f, default_uid, g, st.i), cb)

RECURSIVE FixLoop(_, _, _, _, _)
FixLoop(st, unique_records, default_uid, g, cb) ==
    IF st.raised \/ st.i >= Len(unique_records) THEN st
    ELSE FixLoop(FixRecord(st, unique_records[st.i + 1], default_uid, g, cb),
                 unique_records, default_uid, g, cb)

\* the loop of _fix_records over the records that remove_duplicates left
FixUnique(u, default_uid, g, cb, cb_calls) ==
    [FixLoop([i |-> 0, fixed_records |-> <<>>, missing_fields |-> <<>>,
              data_types |-> <<>>, time_formats |-> <<>>,
              cb_calls |-> cb_calls, raised |-> FALSE],
             u.unique_records, default_uid, g, cb)
     EXCEPT !.i = 0]

\* extract_uid_from_data({"list": unique_records}) or "000000000"
default_uid_of(unique_records) ==
    LET uid == extract_uid_from_data(
                  [isdict |-> TRUE, info |-> [k |-> "absent", f |-> <<>>],
                   list |-> [k |-> "list", items |-> unique_records]])
    IN IF uid = <<>> THEN DefaultUid ELSE uid

\* _fix_records once remove_duplicates has returned u
FixDeduplicated(u, g, cb, cb_calls) ==
    [fixes |-> FixUnique(u, default_uid_of(u.unique_records), g, cb, cb_calls),
     duplicates |-> IF u.removed_count > 0
                    THEN <<Issue("removed", u.removed_count, "id")>> ELSE <<>>]

\* the result of _fix_records, out of the state of its loop
FixResult(x) ==
    [fixed_records |-> x.fixes.fixed_records,
     missing_fields |-> x.fixes.missing_fields,
     data_types |-> x.fixes.data_types,
     time_formats |-> x.fixes.time_formats,
     duplicates |-> x.duplicates,
     cb_calls |-> x.fixes.cb_calls,
     raised |-> x.fixes.raised]

(* _fix_records(records, issues_fixed, progress_callback), the callback    *)
(* having been called cb_calls times: the fixed list, what it appends to   *)
(* issues_fixed, and whether the callback raised                           *)
_fix_records(records, g, cb, cb_calls) ==
    IF records = <<>>
    THEN [fixed_records |-> records, missing_fields |-> <<>>, data_types |-> <<>>,
          time_formats |-> <<>>, duplicates |-> <<>>, cb_calls |-> cb_calls,
          raised |-> FALSE]
    ELSE FixResult(FixDeduplicated(remove_duplicates(records), g, cb, cb_calls))

\* ------------------------------------------- FileRepairer.repair_file

\* os.path.splitext(os.path.basename(file_path))[0]: the files are a.json
\* and b.json
original_filename(file_path) == IF file_path = "a" THEN <<97>> ELSE <<98>>

\* <name>_repaired.json and <name>_repair_report.txt
RepairedFile(file_path) == [kind |-> "repaired", name |-> original_filename(file_path)]
ReportFile(file_path) == [kind |-> "report", name |-> original_filename(file_path)]

\* the report file holds the text of the report
ReportText == [complete |-> TRUE, info |-> << >>, list |-> << >>]

NoFixes ==
    [missing_fields |-> << >>, data_types |-> << >>, time_formats |-> << >>,
     duplicates |-> << >>]

(* repair_info; that of a success has total_issues, total_fixed and        *)
(* success_rate too.                                                       *)
(* present is FALSE for None; report is "none" when it has no              *)
(* "report", "error_report" for _generate_error_report's text and          *)
(* "repair_report" for generate_repair_report's; report_file says that the *)
(* report file exists.                                                     *)
NoRepairInfo ==
    [present |-> FALSE, report |-> "none", issues_found |-> NoIssues,
     issues_fixed |-> NoFixes, unfixable_errors |-> << >>, report_file |-> FALSE]

RepairFailure(error, repair_info, dir) ==
    [success |-> FALSE, error |-> error, repair_info |-> repair_info, outdir |-> dir,
     raised |-> FALSE]

\* an exception leaves the body of repair_file
RepairRaised(dir) ==
    [success |-> FALSE, error |-> "", repair_info |-> NoRepairInfo, outdir |-> dir,
     raised |-> TRUE]

\* unfixable errors are only reported: the fixes go on
NoUnfixable(issues) == << >>

\* issues_found["file_errors"] followed by issues_found["structure_errors"]
unfixable_errors(issues) == issues.file_errors \o issues.structure_errors

\* sum(len(issues) for issues in issues_found.values())
total_issues(issues_found) ==
    Len(issues_found.file_errors) + Len(issues_found.structure_errors)
    + Len(issues_found.info_errors) + Len(issues_found.record_errors)
    + Len(issues_found.duplicate_ids) + Len(issues_found.time_format_errors)
    + Len(issues_found.data_type_errors)

\* sum(len(fixes) for fixes in issues_fixed.values())
total_fixed(issues_fixed) ==
    Len(issues_fixed.missing_fields) + Len(issues_fixed.data_types)
    + Len(issues_fixed.time_formats) + Len(issues_fixed.duplicates)

(* (total_fixed / total_issues * 100) if total_issues > 0 else 100.0, as   *)
(* the fraction num / den: the quotient of two small integers is 1.0       *)
(* exactly when they are equal and lies on the same side of 1.0 as the     *)
(* exact quotient, so the rate compares with 0 and 100 as num / den does   *)
success_rate(fixed, issues) ==
    IF issues > 0 THEN [num |-> fixed * 100, den |-> issues]
    ELSE [num |-> 100, den |-> 1]

\* steps 80 to 100 of repair_file: the two writes and the result
Save(file_path, info, fixed_records, issues_found, issues_fixed, made, env, cb, cb_calls) ==
    IF Raises(cb, cb_calls + 1) THEN RepairRaised(made)
    ELSE IF env.fail_at = 1
    THEN RepairFailure("save_error",
            [NoRepairInfo EXCEPT !.present = TRUE, !.issues_found = issues_found,
                                 !.issues_fixed = issues_fixed],
            [made EXCEPT !.files =
                IF env.partial THEN WriteFile(@, RepairedFile(file_path), Partial)
                ELSE @])
    ELSE
      LET saved == [made EXCEPT !.files =
                      WriteFile(@, RepairedFile(file_path),
                                Written(info, [n \in 1..Len(fixed_records) |->
                                                  fixed_records[n].f]))]
          reported ==
             IF env.fail_at = 2
             THEN [saved EXCEPT !.files =
                     IF env.partial THEN WriteFile(@, ReportFile(file_path), Partial)
                     ELSE @]
             ELSE [saved EXCEPT !.files = WriteFile(@, ReportFile(file_path), ReportText)]
      IN IF Raises(cb, cb_calls + 2) THEN RepairRaised(saved)
         ELSE IF Raises(cb, cb_calls + 3) THEN RepairRaised(reported)
         ELSE [success |-> TRUE, error |-> "",
               repair_info |->
                  [present |-> TRUE, report |-> "repair_report",
                   issues_found |-> issues_found, issues_fixed |-> issues_fixed,
                   unfixable_errors |-> << >>,
                   report_file |-> ReportFile(file_path) \in DOMAIN reported.files,
                   total_issues |-> total_issues(issues_found),
                   total_fixed |-> total_fixed(issues_fixed),
                   success_rate |-> success_rate(total_fixed(issues_fixed),
                                                 total_issues(issues_found))],
               outdir |-> reported, raised |-> FALSE]

\* steps 50 to 100, the info fixed as i says and the records as r says
Fixed(file_path, i, r, issues_found, made, env, cb) ==
    IF Raises(cb, 3)
    THEN RepairFailure("repair_error",
            [NoRepairInfo EXCEPT !.present = TRUE, !.report = "repair_report",
                                 !.issues_found = issues_found,
                                 !.issues_fixed =
                                    [NoFixes EXCEPT !.missing_fields = i.missing_fields,
                                                    !.data_types = i.data_types]],
            made)
    ELSE IF r.raised
    THEN RepairFailure("repair_error",
            [NoRepairInfo EXCEPT !.present = TRUE, !.report = "repair_report",
                                 !.issues_found = issues_found,
                                 !.issues_fixed =
                                    [missing_fields |-> i.missing_fields \o r.missing_fields,
                                     data_types |-> i.data_types \o r.data_types,
                                     time_formats |-> r.time_formats,
                                     duplicates |-> r.duplicates]],
            made)
    ELSE Save(file_path, i.info, r.fixed_records, issues_found,
              [missing_fields |-> i.missing_fields \o r.missing_fields,
               data_types |-> i.data_types \o r.data_types,
               time_formats |-> r.time_formats,
               duplicates |-> r.duplicates],
              made, env, cb, r.cb_calls)

\* steps 30 to 50: the fixes, inside their own try, and then Save
Fix(file_path, d, issues_found, g, made, env, cb) ==
    IF Raises(cb, 2) THEN RepairRaised(made)
    ELSE Fixed(file_path, _fix_info_fields(d.info.f, g),
               _fix_records(d.list.items, g, cb, 3), issues_found, made, env, cb)

\* repair_file once analyze_file_issues has returned a
Analysed(file_path, a, g, made, env, cb) ==
    IF Raises(cb, 1) THEN RepairRaised(made)
    ELSE IF ~a.loaded
    THEN RepairFailure("cannot_load",
            [NoRepairInfo EXCEPT !.present = TRUE, !.report = "error_report",
                                 !.issues_found = a.issues,
                                 !.unfixable_errors = unfixable_errors(a.issues)],
            made)
    ELSE IF unfixable_errors(a.issues) # <<>>
    THEN RepairFailure("unfixable",
            [NoRepairInfo EXCEPT !.present = TRUE, !.report = "error_report",
                                 !.issues_found = a.issues,
                                 !.unfixable_errors = unfixable_errors(a.issues)],
            made)
    ELSE Fix(file_path, a.data, a.issues, g, made, env, cb)

(* the body of the try of repair_file(file_path, output_dir,               *)
(* progress_callback) over the files on disk, in the environment env:      *)
(* [success, error, repair_info], the output directory it leaves and       *)
(* whether an exception left it                                            *)
RepairTry(file_path, files, g, dir, env, cb) ==
    IF ~env.dir_ok THEN RepairFailure("create_output_directory", NoRepairInfo, dir)
    ELSE Analysed(file_path, analyze_file_issues(files[file_path], g), g,
                  [dir EXCEPT !.exists = TRUE], env, cb)

\* except Exception as e: return False, "修复文件时发生未知错误: ...", None
RepairCaught(r) ==
    IF r.raised
    THEN [r EXCEPT !.raised = FALSE, !.success = FALSE, !.error = "unknown_error"]
    ELSE r

\* repair_file(file_path, output_dir, progress_callback)
repair_file(file_path, files, g, dir, env, cb) ==
    RepairCaught(RepairTry(file_path, files, g, dir, env, cb))

\* ---------------------------------------------------------- the repair

MaxRepairLen == 2
MaxRepairRaiseAt == 6

(* The records of the files to repair, of the game's first pool: one with  *)
(* the six required fields and id "2"; one that has uid, lang, item_id and *)
(* count as well; one without id; one whose id is "1000000001"; one of a   *)
(* pool "9" that no game has; one whose id is the number 2 and whose time  *)
(* is "2023-1-1"; one whose time is "x", which nothing repairs, and one    *)
(* whose time is "2023.1.1", which the patterns repair; and something that *)
(* is no object.                                                           *)
RepairRecords(g) ==
    LET own == StrVal(get_gacha_types(g)[1])
        plain == Rec(own, StrVal(<<50>>), StrVal(<<120>>)).f
    IN { Dict(plain),
         Dict(plain \o << [k |-> "uid", v |-> StrVal(<<55>>)],
                          [k |-> "lang", v |-> StrVal(LangZhCn)],
                          [k |-> "item_id", v |-> StrVal(<<53>>)],
                          [k |-> "count", v |-> StrVal(<<49>>)] >>),
         Dict(Without(plain, "id")),
         Dict(Put(plain, "id", StrVal(NatDigits(SyntheticBase + 1)))),
         Dict(Put(Put(plain, "id", StrVal(<<51>>)), "gacha_type", StrVal(<<57>>))),
         Dict(Put(Put(plain, "id", IntVal(2)), "time", StrVal(<<50,48,50,51,45,49,45,49>>))),
         Dict(Put(Put(plain, "id", StrVal(<<52>>)), "time", StrVal(<<120>>))),
         Dict(Put(Put(plain, "id", StrVal(<<53>>)), "time",
                  StrVal(<<50,48,50,51,46,49,46,49>>))),
         NonDict }

\* info with its four fields, and info without lang
RepairInfos(g) == {InfoOf(StrVal(<<55>>), g), Without(InfoOf(StrVal(<<55>>), g), "lang")}

\* the files to repair: documents of a dict info and a list; documents
\* whose structure is wrong; files that cannot be read
RepairFiles(g) ==
    LET whole == Doc(InfoOf(StrVal(<<55>>), g), <<>>)
    IN {File(Doc(info, l)) : info \in RepairInfos(g),
                             l \in Lists(RepairRecords(g), MaxRepairLen)}
       \cup {File([whole EXCEPT !.isdict = FALSE]),
             File([whole EXCEPT !.info.k = "absent"]),
             File([whole EXCEPT !.info.k = "other"]),
             File([whole EXCEPT !.list.k = "absent"]),
             File([whole EXCEPT !.list.k = "other", !.info.k = "absent"])}
       \cup {BadFile(status) :
               status \in {"missing", "unreadable", "bad_json", "empty", "bad_encoding"}}

\* no callback, one that never raises, one that raises at its k-th call
RepairCallbacks == {NoCallback} \cup {Callback(k) : k \in 0..MaxRepairRaiseAt}

NoRepairResult == [success |-> FALSE, error |-> "none", repair_info |-> NoRepairInfo]

\* repair_file does not look at the free space
RepairEnvs == {env \in Envs : env.space_ok}

InitRepair ==
    /\ game_type = "genshin"
    /\ disk \in [a : RepairFiles(game_type)]
    /\ outdir = NoDir
    /\ result = NoRepairResult
    /\ prev = NoCallback
    /\ arg = Env(TRUE, TRUE, 0, FALSE)
    /\ calls = 0
    /\ data = Unused /\ ret = Unused

\* FileRepairer(game_type).repair_file("a.json", output_dir, progress_callback),
\* where the environment fails or the callback raises, not both
RepairFile ==
    /\ calls = 0
    /\ \E env \in RepairEnvs :
       \E cb \in {c \in RepairCallbacks :
                    env = Env(TRUE, TRUE, 0, FALSE) \/ c.raise_at = 0} :
         \E r \in {repair_file("a", disk, game_type, outdir, env, cb)} :
            /\ result' = [success |-> r.success, error |-> r.error,
                          repair_info |-> r.repair_info]
            /\ outdir' = r.outdir
            /\ prev' = cb
            /\ arg' = env
    /\ calls' = 1
    /\ UNCHANGED <<game_type, disk, data, ret>>

NextRepair == RepairFile

SpecRepair == InitRepair /\ [][NextRepair]_vars

\* what analyze_file_issues finds in the file
Found == analyze_file_issues(disk.a, game_type).issues

\* the call got as far as analyze_file_issues
ReachedAnalysis == calls = 1 /\ arg.dir_ok /\ ~Raises(prev, 1)

(* C13: when the analysis of the file has an entry in file_errors or in    *)
(* structure_errors, repair_file returns failure, writes neither the       *)
(* repaired file nor the report file, and returns a report and the issues  *)
(* found; a fix is made or a file written only when both buckets are       *)
(* empty.                                                                  *)
C13_UnfixableStopsRepair ==
    \A found \in {Found} :
      LET unfixable == found.file_errors \o found.structure_errors
      IN /\ (ReachedAnalysis /\ unfixable # << >>) =>
               /\ ~result.success
               /\ result.error \in {"cannot_load", "unfixable"}
               /\ outdir.files = << >>
               /\ result.repair_info.present
               /\ result.repair_info.report = "error_report"
               /\ result.repair_info.issues_found = found
               /\ result.repair_info.unfixable_errors = unfixable
               /\ result.repair_info.issues_fixed = NoFixes
         /\ (calls = 1 /\ (\/ outdir.files # << >>
                           \/ result.repair_info.issues_fixed # NoFixes
                           \/ result.error \in {"repair_error", "save_error"}
                           \/ result.success)) => unfixable = << >>

\* a document without its list was analysed and the run stopped there
C13_Witness ==
    /\ calls = 1
    /\ disk.a.status = "ok" /\ disk.a.doc.list.k = "absent"
    /\ result.error = "unfixable"
    /\ Len(result.repair_info.unfixable_errors) = 1
    /\ outdir.exists /\ outdir.files = << >>

\* the repaired document, once repair_file has written it
Repaired == outdir.files[RepairedFile("a")]

\* the only entry of the analysis is the one for a missing info.lang
OnlyLangMissing(found) ==
    found = [NoIssues EXCEPT !.info_errors = <<Issue("missing", 0, "lang")>>]

\* the optional fields a record of the file has not, or has with a value
\* that is false, record by record in the order of the list
OptionalFills(records) ==
    Flatten([n \in 1..Len(records) |->
       Flatten([m \in 1..Len(optional_fields) |->
          IF /\ Has(records[n].f, optional_fields[m])
             /\ Truthy(Get(records[n].f, optional_fields[m]))
          THEN <<>>
          ELSE <<Issue("optional", n, optional_fields[m])>>])])

(* C14: a repair that succeeds on a document whose only defect is a        *)
(* missing info.lang writes lang "zh-cn", reports one entry in info_errors *)
(* and records one entry in the missing_fields fix list, the one for lang. *)
C14_OneFixForLang ==
    (calls = 1 /\ result.success) =>
       \A found \in {Found} :
          OnlyLangMissing(found) =>
             /\ Get(Repaired.info, "lang") = StrVal(LangZhCn)
             /\ Len(result.repair_info.issues_found.info_errors) = 1
             /\ result.repair_info.issues_fixed.missing_fields =
                   <<Issue("info_default", 0, "lang")>>

(* C14, as the code has it: lang is "zh-cn" and info_errors has one entry, *)
(* and the missing_fields fix list holds the entry for lang followed by    *)
(* one entry for every optional field (uid, lang, item_id, count) that a   *)
(* record lacks, although the analysis reported none of them.              *)
C14_OptionalFieldsAlsoFilled ==
    (calls = 1 /\ result.success) =>
       \A found \in {Found} :
          OnlyLangMissing(found) =>
             /\ Get(Repaired.info, "lang") = StrVal(LangZhCn)
             /\ Len(result.repair_info.issues_found.info_errors) = 1
             /\ result.repair_info.issues_fixed.missing_fields =
                   <<Issue("info_default", 0, "lang")>>
                      \o OptionalFills(disk.a.doc.list.items)

\* lang was the only defect, and a record without optional fields got them
C14_Witness ==
    /\ calls = 1 /\ result.success
    /\ OnlyLangMissing(Found)
    /\ Get(Repaired.info, "lang") = StrVal(LangZhCn)
    /\ Len(disk.a.doc.list.items) = 2
    /\ Len(result.repair_info.issues_fixed.missing_fields) > 1

\* the ids of the repaired list, in its order
RepairedIds == [n \in 1..Len(Repaired.list) |-> Get(Repaired.list[n], "id")]

\* the records of the file that the repaired list comes from, in its
\* order: the objects, but for those whose id, as str() gives it, an
\* earlier record has
Sources ==
    LET items == disk.a.doc.list.items
    IN SelectSeq([n \in 1..Len(items) |->
                    [isdict |-> items[n].isdict, f |-> items[n].f,
                     later |-> HasId(items[n]) /\
                               \E m \in 1..(n - 1) :
                                  /\ HasId(items[m])
                                  /\ PyStr(Get(items[m].f, "id")) =
                                        PyStr(Get(items[n].f, "id"))]],
                 LAMBDA x : x.isdict /\ ~x.later)

(* C19: after a repair that succeeds, every record of the repaired list    *)
(* has an id that is not empty, and no two records have the same id.       *)
C19_IdsDistinct ==
    (calls = 1 /\ result.success) =>
       /\ \A n \in 1..Len(RepairedIds) :
             IsStr(RepairedIds[n]) /\ RepairedIds[n].s # <<>>
       /\ \A m, n \in 1..Len(RepairedIds) :
             m # n => RepairedIds[m] # RepairedIds[n]

(* C19, as the code has it: every id of the repaired list is a string that *)
(* is not empty, and two records of the repaired list have the same id     *)
(* only when exactly one of them had no id in the file: its id is          *)
(* 1000000000 plus its position, which the id of another record can be.    *)
C19_OnlySyntheticIdsCollide ==
    (calls = 1 /\ result.success) =>
       \A src \in {Sources} :
          /\ Len(RepairedIds) = Len(src)
          /\ \A n \in 1..Len(RepairedIds) :
                IsStr(RepairedIds[n]) /\ RepairedIds[n].s # <<>>
          /\ \A m, n \in 1..Len(RepairedIds) :
                (m # n /\ RepairedIds[m] = RepairedIds[n]) =>
                   HasId(src[m]) # HasId(src[n])

\* the record without id, second of the list, was given the id that the
\* first record has
C19_Witness ==
    /\ calls = 1 /\ result.success
    /\ Len(RepairedIds) = 2
    /\ ~HasId(disk.a.doc.list.items[2])
    /\ RepairedIds[2] = StrVal(NatDigits(SyntheticBase + 1))
    /\ RepairedIds[1] = RepairedIds[2]

\* validate_json_structure of what the repaired file holds
RepairedVerdict ==
    validate_json_structure(
       Doc(Repaired.info, [n \in 1..Len(Repaired.list) |-> Dict(Repaired.list[n])]),
       game_type)

\* a record of the file to repair has the value v in the field
InFile(field, v) ==
    \E n \in 1..Len(disk.a.doc.list.items) :
       /\ disk.a.doc.list.items[n].isdict
       /\ Has(disk.a.doc.list.items[n].f, field)
       /\ PyStr(Get(disk.a.doc.list.items[n].f, field)) = v

(* C20: the document that a successful repair_file has written passes      *)
(* validate_json_structure for the same game.                              *)
C20_RepairedIsValid ==
    (calls = 1 /\ result.success) => RepairedVerdict.ok

(* C20, as the code has it: the repaired document passes the checks of     *)
(* info and of the required fields of its records, and fails               *)
(* validate_json_structure only for a gacha_type that the game has not, or *)
(* for a time shorter than 10 characters, that the file had already: the   *)
(* repair changes no gacha_type that is there, and leaves a time that      *)
(* strptime accepts.                                                       *)
C20_ValidButTypeAndTime ==
    (calls = 1 /\ result.success) =>
       \A v \in {RepairedVerdict} :
          \/ v.ok
          \/ /\ v.kind = "unsupported_gacha_type"
             /\ InFile("gacha_type", v.detail)
          \/ /\ v.kind = "bad_time"
             /\ \E n \in 1..Len(Repaired.list) :
                   /\ Len(PyStr(Get(Repaired.list[n], "time"))) < 10
                   /\ InFile("time", PyStr(Get(Repaired.list[n], "time")))

\* the repair succeeded and left the record with the gacha_type "9"
C20_Witness ==
    /\ calls = 1 /\ result.success
    /\ InFile("gacha_type", <<57>>)
    /\ RepairedVerdict.kind = "unsupported_gacha_type"

\* ------------------------------ FileProcessor.validate_file, load_data

Accepted == [is_valid |-> TRUE, error |-> ""]
Rejected(error) == [is_valid |-> FALSE, error |-> error]

(* validate_file(file_path) over the files on disk: every return of its    *)
(* body, in the code's order.  A list of more than 50000 records is        *)
(* rejected too; no list here is that long.                                *)
validate_file(file_path, files, g) ==
    LET f == files[file_path]
    IN IF f.status = "missing" THEN Rejected("file_not_found")
       ELSE IF f.status = "empty" THEN Rejected("empty_file")
       ELSE IF f.status = "too_large" THEN Rejected("file_too_large")
       ELSE IF f.status = "unreadable" THEN Rejected("not_readable")
       ELSE IF f.status = "bad_json" THEN Rejected("json_format_error")
       ELSE IF f.status = "bad_encoding" THEN Rejected("encoding_error")
       ELSE IF ~validate_json_structure(f.doc, g).ok
       THEN Rejected(validate_json_structure(f.doc, g).kind)
       ELSE IF f.doc.list.items = <<>> THEN Rejected("no_records")
       ELSE Accepted

\* an exception leaves the body of load_data
LoadRaised == [loaded |-> FALSE, data |-> << >>, error |-> "", raised |-> TRUE]

(* the body of the try of load_data(file_path): validate_file, then the    *)
(* file is opened and read a second time; gone says that the file has been *)
(* removed in between, and open() raises                                   *)
LoadTry(file_path, files, g, gone) ==
    LET v == validate_file(file_path, files, g)
    IN IF ~v.is_valid
       THEN [loaded |-> FALSE, data |-> << >>, error |-> v.error, raised |-> FALSE]
       ELSE IF gone THEN LoadRaised
       ELSE [loaded |-> TRUE, data |-> files[file_path].doc, error |-> "",
             raised |-> FALSE]

\* except Exception as e: return None, "加载文件时发生错误: ..."
LoadCaught(r) ==
    IF r.raised THEN [r EXCEPT !.raised = FALSE, !.error = "load_error"] ELSE r

\* load_data(file_path)
load_data(file_path, files, g, gone) == LoadCaught(LoadTry(file_path, files, g, gone))

\* ------------------------------------------------- the entry points

MaxEntryRaiseAt == 10

\* a record of the game's first pool, and one of a pool that is folded
\* into another
EntryFirst(g) == Rec(StrVal(get_gacha_types(g)[1]), StrVal(<<50>>), StrVal(<<120>>))
EntryFolded == Rec(StrVal(<<52,48,48>>), StrVal(<<51>>), StrVal(<<121>>))

(* the files of the entry points: two that every entry point accepts, one  *)
(* that only repair_file does (no lang, a record without id), one whose    *)
(* list is missing, one that is not there and one that is no JSON          *)
EntryFiles(g) ==
    {File(Doc(InfoOf(StrVal(<<55>>), g), <<EntryFirst(g)>>)),
     File(Doc(InfoOf(StrVal(<<55>>), g), <<EntryFolded, EntryFirst(g)>>)),
     File(Doc(Without(InfoOf(StrVal(<<55>>), g), "lang"),
              <<Dict(Without(EntryFirst(g).f, "id"))>>)),
     File([Doc(InfoOf(StrVal(<<55>>), g), <<>>) EXCEPT !.list.k = "absent"]),
     BadFile("missing"), BadFile("bad_json")}

(* the documents handed to process_records: a short one, and one of        *)
(* ProgressEvery records whose last is split, so that the callback is      *)
(* invoked inside the loop                                                 *)
EntryDocs(g) ==
    {Doc(InfoOf(StrVal(<<55>>), g), <<EntryFolded, EntryFirst(g)>>),
     Doc(InfoOf(StrVal(<<55>>), g),
         [n \in 1..(ProgressEvery - 1) |->
             Rec(StrVal(<<49>>), StrVal(<<53>>), StrVal(<<120>>))]
            \o <<EntryFirst(g)>>)}

\* no callback, one that never raises, one that raises at its k-th call
EntryCallbacks == {NoCallback} \cup {Callback(k) : k \in 0..MaxEntryRaiseAt}

\* an environment that fails with no callback, or a callback in an
\* environment where nothing fails
EntryRuns ==
    {run \in [env : Envs, cb : EntryCallbacks] :
        run.env = Env(TRUE, TRUE, 0, FALSE) \/ ~run.cb.given}

\* what the caller of an entry point gets: an exception, or the tuple
\* (success, message, ...)
Outcome(entry, success, error, raised) ==
    [entry |-> entry, success |-> success, error |-> error, raised |-> raised]

InitEntry ==
    /\ game_type = "genshin"
    /\ disk \in [a : EntryFiles(game_type), b : EntryFiles(game_type)]
    /\ data \in EntryDocs(game_type)
    /\ outdir = NoDir
    /\ result = Outcome("none", FALSE, "none", FALSE)
    /\ prev = NoCallback
    /\ arg = Env(TRUE, TRUE, 0, FALSE)
    /\ calls = 0
    /\ ret = Unused

\* FileProcessor(game_type).validate_file("a.json")
ValidateFileEntry ==
    /\ calls = 0
    /\ \E r \in {validate_file("a", disk, game_type)} :
          result' = Outcome("validate_file", r.is_valid, r.error, FALSE)
    /\ calls' = 1
    /\ UNCHANGED <<game_type, disk, data, outdir, prev, arg, ret>>

\* FileProcessor(game_type).load_data("a.json")
LoadDataEntry ==
    /\ calls = 0
    /\ \E gone \in BOOLEAN :
         \E r \in {load_data("a", disk, game_type, gone)} :
            result' = Outcome("load_data", r.loaded, r.error, r.raised)
    /\ calls' = 1
    /\ UNCHANGED <<game_type, disk, data, outdir, prev, arg, ret>>

\* FileProcessor(game_type).process_records(data, output_dir, progress_callback)
ProcessRecordsEntry ==
    /\ calls = 0
    /\ \E run \in EntryRuns :
         \E r \in {process_records(data, game_type, outdir, run.env, run.cb)} :
            /\ result' = Outcome("process_records", r.success, r.error, r.raised)
            /\ outdir' = r.outdir
            /\ data' = r.data
            /\ prev' = run.cb
            /\ arg' = run.env
    /\ calls' = 1
    /\ UNCHANGED <<game_type, disk, ret>>

\* FileMerger(game_type).validate_merge_files("a.json", file2_path)
ValidateMergeFilesEntry ==
    /\ calls = 0
    /\ \E file2_path \in {"a", "b"} :
         \E r \in {validate_merge_files("a", file2_path, disk, game_type)} :
            result' = Outcome("validate_merge_files", r.ok, r.error_type, FALSE)
    /\ calls' = 1
    /\ UNCHANGED <<game_type, disk, data, outdir, prev, arg, ret>>

\* FileMerger(game_type).merge_files("a.json", file2_path, output_dir,
\* convert_after_merge, progress_callback)
MergeFilesEntry ==
    /\ calls = 0
    /\ \E file2_path \in {"a", "b"}, convert_after_merge \in BOOLEAN, run \in EntryRuns :
         \E r \in {merge_files("a", file2_path, disk, game_type, outdir,
                               convert_after_merge, run.env, run.cb)} :
            /\ result' = Outcome("merge_files", r.success, r.error, r.raised)
            /\ outdir' = r.outdir
            /\ prev' = run.cb
            /\ arg' = run.env
    /\ calls' = 1
    /\ UNCHANGED <<game_type, disk, data, ret>>

\* FileRepairer(game_type).repair_file("a.json", output_dir, progress_callback)
RepairFileEntry ==
    /\ calls = 0
    /\ \E run \in {x \in EntryRuns : x.env.space_ok} :
         \E r \in {repair_file("a", disk, game_type, outdir, run.env, run.cb)} :
            /\ result' = Outcome("repair_file", r.success, r.error, r.raised)
            /\ outdir' = r.outdir
            /\ prev' = run.cb
            /\ arg' = run.env
    /\ calls' = 1
    /\ UNCHANGED <<game_type, disk, data, ret>>

NextEntry ==
    \/ ValidateFileEntry
    \/ LoadDataEntry
    \/ ProcessRecordsEntry
    \/ ValidateMergeFilesEntry
    \/ MergeFilesEntry
    \/ RepairFileEntry

SpecEntry == InitEntry /\ [][NextEntry]_vars

(* C15: whatever the files, the document, the environment and the          *)
(* callback, also one that raises at any of its invocations, each of       *)
(* validate_file, load_data, process_records, validate_merge_files,        *)
(* merge_files and repair_file returns to its caller: no exception leaves  *)
(* it, and what it returns is either success with no message or failure    *)
(* with a message.                                                         *)
C15_NoExceptionLeaves ==
    calls = 1 =>
       /\ ~result.raised
       /\ result.success \in BOOLEAN
       /\ result.success <=> result.error = ""

\* the callback raised at the last invocation of process_records, and the
\* caller got a failure
C15_Witness ==
    /\ calls = 1
    /\ result.entry = "process_records"
    /\ Len(data.list.items) = 2
    /\ Raises(prev, 1)
    /\ ~result.success /\ result.error = "process_error"

\* the records of the file that have the id, as str() gives it
Carriers(records, id) ==
    {n \in 1..Len(records) : HasId(records[n]) /\ PyStr(Get(records[n].f, "id")) = id}

\* out holds records of records, in their order: the places they come from
Places(records, out) ==
    {f \in [1..Len(out) -> 1..Len(records)] :
        /\ \A i \in 1..Len(out) : out[i] = records[f[i]]
        /\ \A i, j \in 1..Len(out) : i < j => f[i] < f[j]}

(* C21: of the list of the file, remove_duplicates keeps the first record  *)
(* of every id and no other record of that id, keeps every record that has *)
(* no usable id, keeps the order, and counts len(input) - len(output)      *)
(* removals; and a repair that succeeds writes one record for every object *)
(* that remove_duplicates has kept, so that no record is removed for the   *)
(* id that the repair gave it.                                             *)
C21_FirstOfEveryIdKept ==
    (calls = 1 /\ disk.a.status = "ok" /\ disk.a.doc.isdict
               /\ disk.a.doc.list.k = "list") =>
       \A records \in {disk.a.doc.list.items} :
          \A u \in {remove_duplicates(records)} :
             /\ Places(records, u.unique_records) # {}
             /\ \A n \in 1..Len(records) :
                   HasId(records[n]) =>
                      \A c \in {Carriers(records, PyStr(Get(records[n].f, "id")))} :
                         /\ Cardinality(Carriers(u.unique_records,
                                                 PyStr(Get(records[n].f, "id")))) = 1
                         /\ \E k \in 1..Len(u.unique_records) :
                               u.unique_records[k] =
                                  records[CHOOSE m \in c : \A o \in c : m <= o]
             /\ Cardinality({n \in 1..Len(u.unique_records) : ~HasId(u.unique_records[n])})
                   = Cardinality({n \in 1..Len(records) : ~HasId(records[n])})
             /\ u.removed_count = Len(records) - Len(u.unique_records)
             /\ result.success =>
                   Len(Repaired.list) =
                      Cardinality({n \in 1..Len(u.unique_records) :
                                      u.unique_records[n].isdict})

\* two records of the file had the id "2", the first without the optional
\* fields and the second with them; the repaired list has the first only
C21_Witness ==
    /\ calls = 1 /\ result.success
    /\ Len(disk.a.doc.list.items) = 2
    /\ Cardinality(Carriers(disk.a.doc.list.items, <<50>>)) = 2
    /\ disk.a.doc.list.items[1] # disk.a.doc.list.items[2]
    /\ ~Has(disk.a.doc.list.items[1].f, "item_id")
    /\ Len(Repaired.list) = 1
    /\ Get(Repaired.list[1], "item_id") = StrVal(<<48>>)
    /\ result.repair_info.issues_fixed.duplicates = <<Issue("removed", 1, "id")>>

\* ------------------------------------------------ the time that is not repaired

\* the entries that the repair has put under time_formats
TimeEntries == result.repair_info.issues_fixed.time_formats

\* an entry but for the record and the text it speaks of
Shape(e) == [e EXCEPT !.idx = 0, !.original_time = NoneVal]

\* the place in the written list of the record of unique_records that the
\* entry speaks of: the records that are no object are not written
WrittenAt(unique_records, idx) ==
    Cardinality({n \in 1..idx : unique_records[n].isdict})

(* C22 as the specification states it: the entry of a time that            *)
(* fix_time_format could not repair is flagged, so it can be told from the *)
(* entry of a time that was reformatted.                                   *)
C22_FallbackFlagged ==
    (calls = 1 /\ result.success) =>
       \A m, n \in 1..Len(TimeEntries) :
          (/\ ~fix_time_format(TimeEntries[m].original_time).success
           /\ fix_time_format(TimeEntries[n].original_time).success)
             => Shape(TimeEntries[m]) # Shape(TimeEntries[n])

(* C22, what the code does: a time that fix_time_format could not repair   *)
(* is answered by "2023-01-01 00:00:00" and success = FALSE, that time is  *)
(* written in the record, and the entry under time_formats gives the       *)
(* record, the old time and the new one, as the entry of a reformatted     *)
(* time does.                                                              *)
C22_FallbackWritten ==
    (calls = 1 /\ result.success) =>
       \A u \in {remove_duplicates(disk.a.doc.list.items).unique_records} :
          \A m \in 1..Len(TimeEntries) :
             \A e \in {TimeEntries[m]} :
                \A t \in {fix_time_format(e.original_time)} :
                   /\ e = TimeEntry(e.idx, e.original_time, t.time)
                   /\ ~t.success => t = NotFixed
                   /\ e.idx \in 1..Len(u) /\ u[e.idx].isdict
                   /\ Get(Repaired.list[WrittenAt(u, e.idx)], "time") = t.time

C22_Witness ==
    /\ calls = 1 /\ result.success
    /\ Len(TimeEntries) = 2
    /\ TimeEntries[1].original_time = StrVal(<<120>>)
    /\ ~fix_time_format(TimeEntries[1].original_time).success
    /\ fix_time_format(TimeEntries[2].original_time).success
    /\ TimeEntries[2].fixed_time = TimeEntries[1].fixed_time
    /\ Get(Repaired.list[1], "time") = NotFixed.time

\* ------------------------------------------------------ the success rate

\* the statistics of a repair that succeeded
Stats == result.repair_info

(* C23 as the specification states it: the rate is the share of the found  *)
(* issues that were fixed, so total_fixed is at most total_issues, the     *)
(* rate lies between 0 and 100, and it is 100 when no issue was found.     *)
C23_RateIsShareOfFound ==
    (calls = 1 /\ result.success) =>
       /\ Stats.total_fixed <= Stats.total_issues
       /\ 0 <= Stats.success_rate.num
       /\ Stats.success_rate.num <= 100 * Stats.success_rate.den
       /\ Stats.total_issues = 0 => Stats.success_rate.num = 100 * Stats.success_rate.den

(* C23, what the code does: total_issues counts the entries of the         *)
(* analysis, total_fixed the entries of the fixes, which are not the       *)
(* fixes of found issues only; the rate is 100 when no issue was found     *)
(* and total_fixed / total_issues * 100 otherwise, at least 0 and above    *)
(* 100 exactly when there are more fixes than issues.                      *)
C23_RateIsFixesOverIssues ==
    (calls = 1 /\ result.success) =>
       /\ Stats.total_issues = total_issues(Found)
       /\ Stats.total_fixed = total_fixed(Stats.issues_fixed)
       /\ Stats.success_rate.den > 0 /\ Stats.success_rate.num >= 0
       /\ Stats.total_issues = 0 => Stats.success_rate.num = 100 * Stats.success_rate.den
       /\ Stats.total_issues > 0 =>
             Stats.success_rate.num * Stats.total_issues
                = Stats.total_fixed * 100 * Stats.success_rate.den
       /\ (Stats.success_rate.num > 100 * Stats.success_rate.den)
             <=> (Stats.total_issues > 0 /\ Stats.total_fixed > Stats.total_issues)

\* more entries of fixes than issues found: the fields that the analysis does
\* not ask for are filled and counted
C23_Witness ==
    /\ calls = 1 /\ result.success
    /\ Stats.total_issues > 0 /\ Stats.total_fixed > Stats.total_issues
    /\ Stats.success_rate.num > 100 * Stats.success_rate.den
    /\ \E n \in 1..Len(Stats.issues_fixed.missing_fields) :
          Stats.issues_fixed.missing_fields[n].kind = "optional"

\* --------------------------------------- the order of a category file

\* the records of the document that go to <c>.json, in the document's order
InBucket(c) ==
    SelectSeq(data.list.items,
              LAMBDA record :
                 /\ Splittable(record, game_type)
                 /\ should_merge_gacha_type(game_type,
                                            PyStr(Get(record.f, "gacha_type"))) = c)

FileTimes(f) ==
    [n \in 1..Len(outdir.files[f].list) |-> Get(outdir.files[f].list[n], "time")]

\* each string is at least the next one
DescendingStr(vs) ==
    \A n \in 1..(Len(vs) - 1) : ~StrLess(PyStr(vs[n]), PyStr(vs[n + 1]))

\* the category files of the document that hold an id that is no number
NonNumericFiles ==
    {f \in CompleteFiles :
        /\ f.kind = "category"
        /\ \E n \in 1..Len(FileIds(f)) : ~IntOk(FileIds(f)[n])}

(* C24 as the specification states it: a category file that holds an id    *)
(* that is no number is sorted descending by the id as a string, wherever  *)
(* the record of that id stood in the bucket.                              *)
C24_NonNumericSortedById ==
    \A f \in NonNumericFiles : DescendingStr(FileIds(f))

(* C24, what the code does: the first record of the bucket picks the key.  *)
(* When it has an id, a category file that holds an id that is no number   *)
(* is sorted descending by the id as a string, wherever that id stood;     *)
(* when it has none, the file is sorted descending by the time.            *)
C24_FirstRecordPicksKey ==
    \A f \in NonNumericFiles :
       /\ InBucket(f.name) # <<>>
       /\ IF record_id(InBucket(f.name)[1]) # <<>>
          THEN DescendingStr(FileIds(f))
          ELSE DescendingStr(FileTimes(f))

\* the ids "2" then "a" went to 301.json, which holds "a" before "2"
C24_Witness ==
    /\ calls >= 1 /\ result.success
    /\ Len(InBucket(<<51,48,49>>)) = 2
    /\ record_id(InBucket(<<51,48,49>>)[1]) = <<50>>
    /\ record_id(InBucket(<<51,48,49>>)[2]) = <<97>>
    /\ CategoryFile(<<51,48,49>>) \in NonNumericFiles
    /\ FileIds(CategoryFile(<<51,48,49>>)) = <<StrVal(<<97>>), StrVal(<<50>>)>>

\* ------------------------------------------ the order of the merged list

(* a document of uid "1" longer than the sample of the validator: id "0",  *)
(* id "2" four times, and the id 0, a number, of a later time, which the   *)
(* validator does not look at                                              *)
SixRecords ==
    <<Rec(StrVal(<<51,48,49>>), StrVal(<<48>>), StrVal(<<120>>))>>
    \o [n \in 1..4 |-> Rec(StrVal(<<51,48,49>>), StrVal(<<50>>), StrVal(<<120>>))]
    \o <<Dict(Put(Rec(StrVal(<<51,48,49>>), IntVal(0), StrVal(<<120>>)).f,
                  "time", StrVal(TimeLate)))>>

\* two documents of uid "1": file a's is the long one or a short one
InitSorted ==
    /\ game_type = "genshin"
    /\ disk \in [a : {File(Doc(InfoOf(StrVal(<<49>>), game_type), l)) :
                        l \in {SixRecords} \cup Lists(MergeRecordsA, MaxMergeLen)},
                  b : {File(Doc(InfoOf(StrVal(<<49>>), game_type), l)) :
                        l \in Lists(MergeRecordsB, MaxMergeLen)}]
    /\ outdir = NoDir
    /\ result = NoMergeResult
    /\ arg = NoCall
    /\ calls = 0
    /\ data = Unused /\ prev = Unused /\ ret = Unused

SpecSorted == InitSorted /\ [][NextMerge]_vars

\* the records that merge_records has left of the two documents, before
\* the sort
MergedRecords ==
    merge_records(Data1.list.items, Data2.list.items).merged_records

\* the field of every record of the merged file
MergedField(field) ==
    [n \in 1..Len(MergedFileWritten.list) |->
        GetOr(MergedFileWritten.list[n], field, StrVal(<<>>))]

AllNumeric(ids) == \A n \in 1..Len(ids) : IntOk(ids[n])

AscendingInt(ids) == \A n \in 1..(Len(ids) - 1) : IntOf(ids[n]) <= IntOf(ids[n + 1])

AscendingStr(vs) ==
    \A n \in 1..(Len(vs) - 1) : ~StrLess(PyStr(vs[n + 1]), PyStr(vs[n]))

\* the merged file holds the records of before the sort, each as many times
Permuted ==
    /\ Len(MergedFileWritten.list) = Len(MergedRecords)
    /\ \A n \in 1..Len(MergedRecords) :
          Cardinality({m \in 1..Len(MergedRecords) :
                          MergedRecords[m] = MergedRecords[n]})
          = Cardinality({m \in 1..Len(MergedFileWritten.list) :
                            MergedFileWritten.list[m] = MergedRecords[n].f})

(* C25 as the specification states it: the merged list is sorted ascending *)
(* by the id as an integer when every id is numeric and ascending by the   *)
(* id as a string otherwise, and it is a permutation of the deduplicated   *)
(* records.                                                                *)
C25_SortedById ==
    (calls = 1 /\ MergedFileOnDisk) =>
       /\ Permuted
       /\ IF AllNumeric(MergedField("id")) THEN AscendingInt(MergedField("id"))
          ELSE AscendingStr(MergedField("id"))

(* C25, what the code does: the first of the deduplicated records picks    *)
(* the key.  When its id is truthy the list is sorted as C25 says; when    *)
(* its id is 0, as it can be past the sample of the validator, the list is *)
(* sorted ascending by the time.  The sort is a permutation in both cases. *)
C25_FirstRecordPicksKey ==
    (calls = 1 /\ MergedFileOnDisk) =>
       /\ Permuted
       /\ MergedRecords # <<>> =>
             IF Truthy(GetOr(MergedRecords[1].f, "id", StrVal(<<>>)))
             THEN IF AllNumeric(MergedField("id"))
                  THEN AscendingInt(MergedField("id"))
                  ELSE AscendingStr(MergedField("id"))
             ELSE AscendingStr(MergedField("time"))

\* the ids "10" and "2" were merged in this order and written 2 before 10
C25_Witness ==
    /\ calls = 1 /\ MergedFileOnDisk /\ result.success
    /\ Len(MergedRecords) >= 2
    /\ record_id(MergedRecords[1]) = <<49,48>>
    /\ record_id(MergedRecords[2]) = <<50>>
    /\ AllNumeric(MergedField("id"))
    /\ PyStr(MergedField("id")[1]) = <<50>>
    /\ PyStr(MergedField("id")[2]) = <<49,48>>

\* ------------------------------------------------ the split that stops

\* the categories that the document has records of
BucketsOfDocument == {c \in Range(get_gacha_types(game_type)) : InBucket(c) # <<>>}

\* the place in the document of the first record of the bucket, which is
\* the place of the bucket in the loop of save_records_by_type
FirstAt(c) ==
    CHOOSE n \in 1..Len(data.list.items) :
       GoesTo(n, c) /\ \A m \in 1..(n - 1) : ~GoesTo(m, c)

\* the first record of the bucket has no usable id and no usable time
Unsortable(c) ==
    /\ record_id(InBucket(c)[1]) = <<>>
    /\ PyStr(GetOr(InBucket(c)[1].f, "time", StrVal(<<>>))) = <<>>

(* C26: when the first record of a bucket has neither a usable id nor a    *)
(* time, process_records returns failure without statistics, and no file   *)
(* is written for that bucket or for a later one; when the failure is that *)
(* of the sort, the file of every bucket before the first such bucket is   *)
(* on disk with the records of its bucket.                                 *)
C26_SplitNotAtomic ==
    calls = 1 =>
       \A c \in BucketsOfDocument :
          Unsortable(c) =>
             /\ ~result.success
             /\ result.stats = NoStats
             /\ \A later \in BucketsOfDocument :
                   FirstAt(later) >= FirstAt(c)
                      => CategoryFile(later) \notin DOMAIN outdir.files
             /\ result.error = "missing_sort_field" =>
                   \A earlier \in BucketsOfDocument :
                      (\A bad \in BucketsOfDocument :
                          Unsortable(bad) => FirstAt(earlier) < FirstAt(bad))
                      => /\ CategoryFile(earlier) \in CompleteFiles
                         /\ Len(outdir.files[CategoryFile(earlier)].list)
                               = Len(InBucket(earlier))

\* a "301" record, then a "200" record without id and time: the split has
\* failed on the sort of 200 and has left 301.json
C26_Witness ==
    /\ calls = 1
    /\ BucketsOfDocument = {<<51,48,49>>, <<50,48,48>>}
    /\ Unsortable(<<50,48,48>>)
    /\ FirstAt(<<51,48,49>>) < FirstAt(<<50,48,48>>)
    /\ ~result.success /\ result.error = "missing_sort_field"
    /\ result.stats = NoStats
    /\ DOMAIN outdir.files = {CategoryFile(<<51,48,49>>)}
    /\ CategoryFile(<<51,48,49>>) \in CompleteFiles

\* ------------------------------------------- what the callback is given

\* process_records was called with a callback and has made its directory:
\* the document has a list, so the call has come to its loop
SplitWithCallback ==
    /\ calls = 1 /\ result # NoResult /\ prev.given
    /\ result.error # "create_output_directory"

\* (k, n) for every multiple k of ProgressEvery up to n, then (n, n)
EveryHundredth(n) ==
    [j \in 1..(n \div ProgressEvery) |-> Progress(j * ProgressEvery, n)]
    \o <<Progress(n, n)>>

\* (k, n) for the multiples k of ProgressEvery whose record is split
HundredthsSplit(records) ==
    LET ks == SelectSeq([j \in 1..(Len(records) \div ProgressEvery) |->
                            j * ProgressEvery],
                        LAMBDA k : Splittable(records[k], game_type))
    IN [j \in 1..Len(ks) |-> Progress(ks[j], Len(records))]

(* C27 as the specification states it: a split of n records gives the      *)
(* callback (k, n) for every multiple k of 100 up to n, in increasing      *)
(* order, and then (n, n) once, for every n and whatever records are       *)
(* skipped.                                                                *)
C27_EveryHundredth ==
    SplitWithCallback => result.progress = EveryHundredth(Len(data.list.items))

(* C27, what the code does: a split of n > 0 records gives the callback    *)
(* (k, n) for the multiples k of 100 whose record is split, in increasing  *)
(* order, and then (n, n) once; a skipped record gives it nothing, and a   *)
(* split of no record returns before any call.                             *)
C27_HundredthsThatAreSplit ==
    SplitWithCallback =>
       result.progress =
          IF data.list.items = <<>> THEN <<>>
          ELSE HundredthsSplit(data.list.items)
               \o <<Progress(Len(data.list.items), Len(data.list.items))>>

\* 100 records, the last of which is split: (100, 100) twice
C27_Witness ==
    /\ SplitWithCallback /\ result.success
    /\ Len(data.list.items) = ProgressEvery
    /\ Splittable(data.list.items[ProgressEvery], game_type)
    /\ result.progress = <<Progress(ProgressEvery, ProgressEvery),
                           Progress(ProgressEvery, ProgressEvery)>>

\* -------------------------------------- what merge_files gives the callback

\* "301" records of the ids "1" to "112": more than 100 / 0.9 of them
LongRecords ==
    [n \in 1..LongLen |-> Rec(StrVal(<<51,48,49>>), StrVal(NatDigits(n)), StrVal(<<120>>))]

\* file a is of uid "1", long or short; file b is of uid "1", or of uid "2"
InitProgress ==
    /\ game_type = "genshin"
    /\ disk \in [a : {File(Doc(InfoOf(StrVal(<<49>>), game_type), l)) :
                        l \in {LongRecords} \cup Lists(MergeRecordsA, MaxMergeLen)},
                  b : {File(Doc(InfoOf(StrVal(<<49>>), game_type), l)) :
                        l \in Lists(MergeRecordsB, MaxTail)}
                      \cup {File(Doc(InfoOf(StrVal(<<50>>), game_type), <<>>))}]
    /\ outdir = NoDir
    /\ result = NoMergeResult
    /\ arg = NoCall
    /\ prev = NoCallback
    /\ calls = 0
    /\ data = Unused /\ ret = Unused

\* FileMerger(game_type).merge_files(a, b, output_dir, convert_after_merge,
\* progress_callback); result.progress is what the callback was given
MergeFilesProgress ==
    /\ calls = 0
    /\ \E convert_after_merge \in BOOLEAN, env \in Envs, cb \in Callbacks :
         \E r \in {merge_files("a", "b", disk, game_type, outdir,
                               convert_after_merge, env, cb)} :
            /\ result' = [success |-> r.success, error |-> r.error,
                          result_info |-> r.result_info, progress |-> r.cb_log]
            /\ outdir' = r.outdir
            /\ arg' = [file1_path |-> "a", file2_path |-> "b",
                       convert_after_merge |-> convert_after_merge]
            /\ prev' = cb
    /\ calls' = 1
    /\ UNCHANGED <<game_type, disk, data, ret>>

NextProgress == MergeFilesProgress

SpecProgress == InitProgress /\ [][NextProgress]_vars

\* current / total of an invocation is at most that of the next one
NeverDecreases(log) ==
    \A j \in 1..(Len(log) - 1) :
       log[j].current * log[j + 1].total <= log[j + 1].current * log[j].total

\* the place in the log of progress_callback(90, 100, ...), the last
\* invocation before the conversion; 0 when there is none
ConversionAt(log) ==
    IF arg.convert_after_merge /\ Len(log) >= 8 THEN 8 ELSE 0

(* C28 as the specification states it: within one call of merge_files      *)
(* current / total never decreases from an invocation of the callback to   *)
(* the next, with the conversion or without, and a call that succeeds ends *)
(* with (100, 100).                                                        *)
C28_ProgressNeverDecreases ==
    (calls = 1 /\ prev.given) =>
       /\ NeverDecreases(result.progress)
       /\ result.success => result.progress[Len(result.progress)] = Progress(100, 100)

(* C28, what the code does: current / total never decreases up to the      *)
(* (90, 100) that precedes the conversion, and never from the first        *)
(* invocation by the conversion on; the conversion starts again from       *)
(* (k, n), its own count of records.  A call that succeeds ends with       *)
(* (100, 100).                                                             *)
C28_ConversionStartsAgain ==
    (calls = 1 /\ prev.given) =>
       \A log \in {result.progress} :
          /\ log # <<>>
          /\ IF ConversionAt(log) = 0 THEN NeverDecreases(log)
             ELSE /\ NeverDecreases(SubSeq(log, 1, ConversionAt(log)))
                  /\ NeverDecreases(SubSeq(log, ConversionAt(log) + 1, Len(log)))
          /\ result.success => log[Len(log)] = Progress(100, 100)

\* 112 records were merged and converted: (90, 100), then (100, 112)
C28_Witness ==
    /\ calls = 1 /\ prev.given /\ result.success
    /\ arg.convert_after_merge
    /\ Len(result.progress) = 11
    /\ result.progress[8] = Progress(90, 100)
    /\ result.progress[9] = Progress(ProgressEvery, LongLen)
    /\ result.progress[10] = Progress(LongLen, LongLen)
    /\ result.progress[11] = Progress(100, 100)

\* ------------------------------ merge_files when the validation fails

\* what validate_merge_files answers on the two files of the call
Validation == validate_merge_files(arg.file1_path, arg.file2_path, disk, game_type)

(* C29: when validate_merge_files refuses the two files, for whatever       *)
(* reason, merge_files returns failure with the reason and no result, and  *)
(* leaves the file system as it was: the output directory is not created   *)
(* and no merged or category file is written.                              *)
C29_RefusedWritesNothing ==
    (calls = 1 /\ ~Validation.ok) =>
        /\ ~result.success
        /\ result.error = Validation.error_type
        /\ result.result_info = NoResultInfo
        /\ outdir = NoDir

\* two well-formed files of the same uid were refused for a gacha_type the
\* game does not have, and nothing was created
C29_Witness ==
    /\ calls = 1
    /\ ~Validation.ok
    /\ Validation.error_type = "game_type_incompatible"
    /\ arg.file1_path # arg.file2_path
    /\ result.error = "game_type_incompatible"
    /\ ~outdir.exists

\* ------------------------------------------- main.py: the desktop caller

(* The window and its threads.  data is the window: the state of           *)
(* convert_button and the message boxes that are open, the last opened     *)
(* last; a message box is modal, so the call that opened it goes on when   *)
(* it is closed, and the boxes opened after it are closed before it.  arg  *)
(* is the worker threads that start_operation has started, ret the         *)
(* callbacks that root.after(0, ...) has queued and the main loop has not  *)
(* run yet, result the threads whose handler has returned, calls the       *)
(* clicks on convert_button that have reached start_operation.             *)

\* the progress callbacks one engine operation makes at most
MaxUpdates == 1

\* self.ui.convert_button.config(state="disabled") left out
StaysNormal == "normal"

\* self.ui.convert_button.config(state="disabled")
StartState == "disabled"

\* the values of current_function, and one that _prepare_operation refuses
Functions == {"split", "repair", "merge", "unknown"}

(* how the body of the try of _run_split, _run_repair, _run_merge ends:    *)
(* load_data returns no data (split only), the engine returns success, or  *)
(* failure, or an exception leaves it                                      *)
Outcomes(target) ==
    {"success", "failure", "exception"}
    \cup (IF target = "split" THEN {"no_data"} ELSE {})

\* the handler that the thread n hands to root.after for the outcome
HandlerOf(outcome, n) ==
    [kind |-> IF outcome = "success" THEN "show_operation_result"
              ELSE "on_operation_error",
     thread |-> n]

\* messagebox.showerror of _validate_inputs: nothing follows its closing
InputBox == [kind |-> "input_error", thread |-> 0, reset |-> FALSE]

\* the message box of show_operation_result or on_operation_error, which
\* reset_conversion_state follows
HandlerBox(kind, n) == [kind |-> kind, thread |-> n, reset |-> TRUE]

InitDesktop ==
    /\ data = [convert_button |-> "normal", boxes |-> <<>>]
    /\ arg = <<>>
    /\ ret = <<>>
    /\ result = <<>>
    /\ calls = 0
    /\ game_type = "genshin"
    /\ disk = Unused /\ outdir = Unused /\ prev = Unused

(* start_operation, the command of convert_button: Tk runs it on a click   *)
(* when the button is not disabled.  The inputs are refused; or the button *)
(* is disabled and _prepare_operation raises, so on_operation_error is     *)
(* called at once; or the button is disabled and the thread is started.    *)
start_operation ==
    /\ calls < MaxCalls
    /\ data.convert_button = "normal"
    /\ calls' = calls + 1
    /\ \E current_func \in Functions, inputs_ok \in BOOLEAN, processor_ok \in BOOLEAN :
         IF ~inputs_ok
         THEN /\ data' = [data EXCEPT !.boxes = Append(@, InputBox)]
              /\ UNCHANGED arg
         ELSE IF current_func = "unknown" \/ ~processor_ok
         THEN /\ data' = [convert_button |-> StartState,
                          boxes |-> Append(data.boxes,
                                           HandlerBox("on_operation_error", 0))]
              /\ UNCHANGED arg
         ELSE /\ data' = [data EXCEPT !.convert_button = StartState]
              /\ arg' = Append(arg, [target |-> current_func, pc |-> "engine",
                                     outcome |-> "", scheduled |-> 0,
                                     updates |-> 0])
    /\ UNCHANGED <<game_type, disk, outdir, result, prev, ret>>

\* update_progress, called by the engine on the thread n:
\* self.root.after(0, update_ui)
update_progress(n) ==
    /\ arg[n].pc = "engine"
    /\ arg[n].updates < MaxUpdates
    /\ arg' = [arg EXCEPT ![n].updates = @ + 1]
    /\ ret' = Append(ret, [kind |-> "update_ui", thread |-> n])
    /\ UNCHANGED <<game_type, disk, data, outdir, result, calls, prev>>

\* the body of the try of _run_split, _run_repair or _run_merge on the
\* thread n comes to its end
EngineReturns(n) ==
    /\ arg[n].pc = "engine"
    /\ \E outcome \in Outcomes(arg[n].target) :
         arg' = [arg EXCEPT ![n].pc = "returned", ![n].outcome = outcome]
    /\ UNCHANGED <<game_type, disk, data, outdir, result, calls, prev, ret>>

\* self.root.after(0, lambda: ...) of the branch taken, and the thread ends
Schedule(n) ==
    /\ arg[n].pc = "returned"
    /\ ret' = Append(ret, HandlerOf(arg[n].outcome, n))
    /\ arg' = [arg EXCEPT ![n].pc = "done", ![n].scheduled = @ + 1]
    /\ UNCHANGED <<game_type, disk, data, outdir, result, calls, prev>>

(* the main loop, or the loop of an open message box, runs the callback    *)
(* queued first: update_ui returns at once, show_operation_result and      *)
(* on_operation_error open their message box                               *)
RunCallback ==
    /\ ret # <<>>
    /\ ret' = Tail(ret)
    /\ data' = IF Head(ret).kind = "update_ui" THEN data
               ELSE [data EXCEPT
                       !.boxes = Append(@, HandlerBox(Head(ret).kind,
                                                      Head(ret).thread))]
    /\ UNCHANGED <<game_type, disk, outdir, result, calls, prev, arg>>

\* the message box opened last is closed, and the call that opened it goes
\* on: reset_conversion_state, for a handler
CloseBox ==
    /\ data.boxes # <<>>
    /\ \E box \in {data.boxes[Len(data.boxes)]} :
         /\ data' = [convert_button |-> IF box.reset THEN "normal"
                                        ELSE data.convert_button,
                     boxes |-> SubSeq(data.boxes, 1, Len(data.boxes) - 1)]
         /\ result' = IF box.reset /\ box.thread # 0
                      THEN Append(result, box.thread) ELSE result
    /\ UNCHANGED <<game_type, disk, outdir, calls, prev, arg, ret>>

\* a step of one of the threads
Worker == \E n \in 1..Len(arg) : update_progress(n) \/ EngineReturns(n) \/ Schedule(n)

NextDesktop == start_operation \/ Worker \/ RunCallback \/ CloseBox

SpecDesktop == InitDesktop /\ [][NextDesktop]_vars

(* A thread that can take a step takes one, the engine returns, the main   *)
(* loop runs the callbacks it is given, and a message box is closed.       *)
SpecDesktopFair ==
    /\ SpecDesktop
    /\ WF_vars(\E n \in 1..Len(arg) : EngineReturns(n) \/ Schedule(n))
    /\ WF_vars(RunCallback)
    /\ WF_vars(CloseBox)

\* the threads whose engine operation has not come to its end
Running == {n \in 1..Len(arg) : arg[n].pc = "engine"}

\* the handlers of the thread n that are queued, open, or have returned
QueuedOf(n) == {j \in 1..Len(ret) : ret[j].kind # "update_ui" /\ ret[j].thread = n}
OpenOf(n) == {j \in 1..Len(data.boxes) : data.boxes[j].thread = n}
ReturnedOf(n) == {j \in 1..Len(result) : result[j] = n}

\* at most one operation at a time; from the start of a thread to the
\* return of its handler the button is disabled and no other thread is
\* started; a thread has queued one handler when it ends, none before
OneAtATime ==
    /\ Cardinality(Running) <= 1
    /\ \A n \in 1..Len(arg) :
         /\ ReturnedOf(n) = {} => /\ data.convert_button = "disabled"
                                  /\ n = Len(arg)
         /\ arg[n].scheduled = IF arg[n].pc = "done" THEN 1 ELSE 0
         /\ Cardinality(QueuedOf(n)) + Cardinality(OpenOf(n))
               + Cardinality(ReturnedOf(n)) = arg[n].scheduled

\* the button becomes normal again only when the message box of a handler
\* is closed
EnabledByHandler ==
    (data.convert_button = "disabled" /\ data'.convert_button = "normal") =>
        /\ Len(data'.boxes) = Len(data.boxes) - 1
        /\ data.boxes[Len(data.boxes)].reset

(* C30: in the desktop caller at most one engine operation runs at a time: *)
(* start_operation disables convert_button before it starts the thread,    *)
(* the button is enabled again only by the handler of a result or an       *)
(* error, every path of a thread queues exactly one handler, and so does   *)
(* a failure to prepare the operation call one; a disabled button is       *)
(* enabled again.                                                          *)
C30_OneOperationAtATime ==
    /\ []OneAtATime
    /\ [][EnabledByHandler]_vars
    /\ (data.convert_button = "disabled") ~> (data.convert_button = "normal")

\* a second operation runs after the first one ended in an exception and
\* its handler has enabled the button again
C30_Witness ==
    /\ calls = 2
    /\ Len(arg) = 2
    /\ arg[1].outcome = "exception" /\ arg[1].pc = "done"
    /\ result = <<1>>
    /\ arg[2].pc = "engine"
    /\ data.convert_button = "disabled"

====
